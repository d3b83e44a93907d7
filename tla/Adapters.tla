-------------------------------- MODULE Adapters --------------------------------
(***************************************************************************)
(* The adapter registry: every source of record by its name, and the       *)
(* curated timelines, which reach the reducer the same way.                *)
(***************************************************************************)
EXTENDS AdaptersOfRules, AdaptersOfDrafts, AdaptersOfRecord

Registered == {"federal_register", "regulations_gov", "cellar", "oeil", "have_your_say", "legiscan",
               "edpb", "esma", "eba", "cppa", "pci_ssc", "aicpa", "nist_csrc", "nist_pubs",
               "iso_catalog", "ecfr", "uk_legislation", "standard_pages", "pci_docs", "cis",
               "hitrust", "fedramp", "aiuc", "curated"}

\* What a run that reads `doc` of `source` today hands to the reducer.
Normalize(source, doc, today) ==
  CASE source = "federal_register" -> FederalRegister(doc)
    [] source = "regulations_gov"  -> RegulationsGov(doc)
    [] source = "cellar"           -> Cellar(doc)
    [] source = "oeil"             -> Oeil(doc)
    [] source = "have_your_say"    -> HaveYourSay(doc)
    [] source = "legiscan"         -> Legiscan(doc)
    [] source = "edpb"             -> Edpb(doc)
    [] source = "esma"             -> Esma(doc)
    [] source = "eba"              -> Eba(doc)
    [] source = "cppa"             -> Cppa(doc)
    [] source = "pci_ssc"          -> PciSsc(doc)
    [] source = "aicpa"            -> Aicpa(doc)
    [] source = "nist_csrc"        -> NistCsrc(doc)
    [] source = "nist_pubs"        -> NistPubs(doc)
    [] source = "iso_catalog"      -> IsoCatalog(doc)
    [] source = "ecfr"             -> Ecfr(doc)
    [] source = "uk_legislation"   -> UkLegislation(doc, today)
    [] source = "standard_pages"   -> StandardPages(doc)
    [] source = "pci_docs"         -> PciDocs(doc)
    [] source = "cis"              -> Cis(doc)
    [] source = "hitrust"          -> Hitrust(doc)
    [] source = "fedramp"          -> Fedramp(doc)
    [] source = "aiuc"             -> Aiuc(doc)
    [] source = "curated"          -> Timeline(doc)

\* Whether a run that asks for changes from day `since` on is given the document: the
\* feeds and pages not named here are read whole.
Lists(source, doc, since, today) ==
  CASE source = "federal_register" -> FederalRegisterLists(doc, since, today)
    [] source = "regulations_gov"  -> RegulationsGovLists(doc, since, today)
    [] source = "cellar"           -> CellarLists(doc, since, today)
    [] source = "legiscan"         -> LegiscanLists(doc, since, today)
    [] source = "aicpa"            -> AicpaLists(doc, since, today)
    [] source = "iso_catalog"      -> IsoCatalogLists(doc, since, today)
    [] source = "hitrust"          -> HitrustLists(doc, since, today)
    [] source = "fedramp"          -> FedrampLists(doc, since, today)
    [] OTHER                       -> TRUE
===============================================================================

--------------------------------- MODULE SignIn ---------------------------------
(***************************************************************************)
(* auth.py and web/auth_routes.py: magic links, sessions, organizations    *)
(* and invites. A request is one transaction (web/deps.py, get_db). It     *)
(* decides on what it reads when it starts and writes when it commits, and *)
(* others may commit in between; where only the decision can be overtaken  *)
(* the two are actions of their own. A session is known by the link it     *)
(* came from.                                                              *)
(***************************************************************************)
EXTENDS Naturals, Sequences, FiniteSets

CONSTANTS
  Emails,
  Founder,      \* the address that has founded the first org
  RolesSent,    \* what the role field of the invite form may hold
  InstanceAdmins, \* addresses that may administer every org they are in
  LinksPerHour, \* _MAX_LOGIN_REQUESTS_PER_HOUR
  InviteQuota,  \* pending invites an org may have, 0 for any number
  Handlers,     \* threads and processes that serve requests
  MaxRequests, MaxOrgs  \* bounds: requests, orgs

ASSUME SignInAssumption ==
  /\ Founder \in Emails /\ InstanceAdmins \subseteq Emails
  /\ {LinksPerHour, InviteQuota, MaxRequests} \subseteq Nat /\ MaxOrgs \in Nat \ {0}

VARIABLES
  links,    \* login_token: sequence of [email, age, spent, issued]
  users,    \* addresses with an account
  orgs,     \* number of orgs, which are numbered from 1
  members,  \* <<org, email>> -> role, "none" for outsiders
  founders, \* <<org, email>> of who founded an org
  invites,  \* <<org, email>> -> [role, state], "none", "pending" or "accepted"
  sessions, \* open sessions: [link, nth, org], org 0 for none
  serving,  \* handler -> the request it serves
  overtaken, \* what a request wrote after others had changed what it had read
  requests   \* number of requests so far

signInVars ==
  <<links, users, orgs, members, founders, invites, sessions, serving, overtaken, requests>>

Roles  == {"owner", "admin", "member"}
OrgIds == 1..MaxOrgs
Free == [does |-> "nothing"]

Email(s) == links[s.link].email
OrgsOf(e) == {o \in OrgIds : members[<<o, e>>] # "none"}

\* Mutant of Recent: only links that still work count.
RecentAndFresh(e) == Cardinality({l \in DOMAIN links : links[l].email = e /\ links[l].age = 0})

\* The links an address has asked for within the hour. A link lives for a quarter of an
\* hour; time passes by half hours: age 0 is fresh, 1 expired, 2 is out of the hour.
Recent(e) == Cardinality({l \in DOMAIN links : links[l].email = e /\ links[l].age < 2})

\* can_admin_org, of the user of a session.
MayAdmin(s) ==
  Email(s) \in InstanceAdmins \/ members[<<s.org, Email(s)>>] \in {"owner", "admin"}

\* The role that a form names, if it is one.
Named(role, otherwise) == IF role \in Roles THEN role ELSE otherwise

Invited(o, e) == invites[<<o, e>>].state = "pending"
Pending(o) == Cardinality({e \in Emails : Invited(o, e)})

\* Handler h takes up a request, and is done with it.
Takes(h, request) ==
  /\ serving[h] = Free /\ requests < MaxRequests
  /\ serving' = [serving EXCEPT ![h] = request]
  /\ requests' = requests + 1

Serves(h, does) ==
  /\ serving[h].does = does
  /\ serving' = [serving EXCEPT ![h] = Free]
  /\ UNCHANGED requests

\* A request whose one reading and writing nothing can come between.
AtOnce == requests < MaxRequests /\ requests' = requests + 1 /\ UNCHANGED serving
-------------------------------------------------------------------------------
SignInInit ==
  /\ links = << [email |-> Founder, age |-> 2, spent |-> TRUE, issued |-> 1] >>
  /\ users = {Founder} /\ orgs = 1
  /\ members = [p \in OrgIds \X Emails |-> IF p = <<1, Founder>> THEN "owner" ELSE "none"]
  /\ founders = {<<1, Founder>>}
  /\ invites = [p \in OrgIds \X Emails |-> [role |-> "none", state |-> "none"]]
  /\ sessions = {[link |-> 1, nth |-> 1, org |-> 1]}
  /\ serving = [h \in Handlers |-> Free]
  /\ overtaken = {} /\ requests = 0

\* login_submit: the links of the last hour are counted first.
AskForLink(h, e) ==
  /\ Recent(e) < LinksPerHour
  /\ Takes(h, [does |-> "ask", email |-> e, seen |-> Recent(e)])
  /\ UNCHANGED <<links, users, orgs, members, founders, invites, sessions, overtaken>>

SendLink(h) ==
  LET ask == serving[h]
  IN  /\ Serves(h, "ask")
      /\ links' = Append(links, [email |-> ask.email, age |-> 0, spent |-> FALSE, issued |-> 0])
      /\ overtaken' = IF Recent(ask.email) > ask.seen
                      THEN overtaken \cup {<<"ask", ask.email>>} ELSE overtaken
      /\ UNCHANGED <<users, orgs, members, founders, invites, sessions>>

\* Mutant of OpenLink: a link works until it expires.
OpenLinkAgain(h, l) ==
  /\ links[l].age = 0
  /\ Takes(h, [does |-> "verify", link |-> l, seen |-> links[l].spent])
  /\ UNCHANGED <<links, users, orgs, members, founders, invites, sessions, overtaken>>

\* verify_login reads the token.
OpenLink(h, l) ==
  /\ ~ links[l].spent /\ links[l].age = 0
  /\ Takes(h, [does |-> "verify", link |-> l, seen |-> links[l].spent])
  /\ UNCHANGED <<links, users, orgs, members, founders, invites, sessions, overtaken>>

\* accept_pending_invites: a membership that exists is left as it is.
Joined(e) ==
  [p \in DOMAIN members |->
     IF p[2] = e /\ Invited(p[1], e) /\ members[p] = "none" THEN invites[p].role ELSE members[p]]

Accepted(e) ==
  [p \in DOMAIN invites |->
     IF p[2] = e /\ Invited(p[1], e) THEN [invites[p] EXCEPT !.state = "accepted"] ELSE invites[p]]

\* The rest of verify: marking the token waits for a request that has marked it, so all
\* that follows is read afresh. The session gets the first org by name.
SignUserIn(h) ==
  LET l == serving[h].link
      e == links[l].email
  IN  /\ Serves(h, "verify")
      /\ links' = [links EXCEPT ![l] = [links[l] EXCEPT !.spent = TRUE, !.issued = @ + 1]]
      /\ users' = users \cup {e}
      /\ members' = Joined(e) /\ invites' = Accepted(e)
      /\ \E o \in LET mine == {i \in OrgIds : members'[<<i, e>>] # "none"}
                  IN  IF mine = {} THEN {0} ELSE mine :
           sessions' = sessions \cup {[link |-> l, nth |-> links[l].issued + 1, org |-> o]}
      /\ overtaken' = IF links[l].spent # serving[h].seen
                      THEN overtaken \cup {<<"verify", l>>} ELSE overtaken
      /\ UNCHANGED <<orgs, founders>>

LogOut(s) ==
  /\ AtOnce
  /\ sessions' = sessions \ {s}
  /\ UNCHANGED <<links, users, orgs, members, founders, invites, overtaken>>

\* onboarding_submit: the request has found its session.
FoundOrg(h, s) ==
  /\ orgs < MaxOrgs
  /\ Takes(h, [does |-> "found", session |-> s])
  /\ UNCHANGED <<links, users, orgs, members, founders, invites, sessions, overtaken>>

\* The founder owns the org; the session is looked up again and may be gone.
OrgFounded(h) ==
  LET s == serving[h].session
  IN  /\ Serves(h, "found") /\ orgs < MaxOrgs
      /\ orgs' = orgs + 1
      /\ members' = [members EXCEPT ![<<orgs', Email(s)>>] = "owner"]
      /\ founders' = founders \cup {<<orgs', Email(s)>>}
      /\ sessions' = {IF t.link = s.link /\ t.nth = s.nth THEN [t EXCEPT !.org = orgs'] ELSE t :
                      t \in sessions}
      /\ UNCHANGED <<links, users, invites, overtaken>>

\* Mutant of SwitchOrg: membership is not asked for.
SwitchOrgAnywhere(s, o) ==
  /\ AtOnce
  /\ o \in 1..orgs
  /\ sessions' = (sessions \ {s}) \cup {[s EXCEPT !.org = o]}
  /\ UNCHANGED <<links, users, orgs, members, founders, invites, overtaken>>

SwitchOrg(s, o) ==
  /\ AtOnce
  /\ o \in OrgsOf(Email(s))
  /\ sessions' = (sessions \ {s}) \cup {[s EXCEPT !.org = o]}
  /\ UNCHANGED <<links, users, orgs, members, founders, invites, overtaken>>

\* invite_member: the quota and the address's row are read. An address invited again
\* counts against the quota too.
Invite(h, s, e, role) ==
  /\ s.org # 0 /\ MayAdmin(s)
  /\ InviteQuota = 0 \/ Pending(s.org) < InviteQuota
  /\ Takes(h, [does |-> "invite", for |-> <<s.org, e>>, role |-> role,
               seen |-> invites[<<s.org, e>>]])
  /\ UNCHANGED <<links, users, orgs, members, founders, invites, sessions, overtaken>>

\* Mutant of InviteSent: whatever row there is takes the role.
InviteSentAnyway(h) ==
  LET request == serving[h]
  IN  /\ Serves(h, "invite")
      /\ invites' = [invites EXCEPT ![request.for] = [invites[request.for] EXCEPT
           !.role = Named(request.role, "member"), !.state = IF @ = "none" THEN "pending" ELSE @]]
      /\ UNCHANGED <<links, users, orgs, members, founders, sessions, overtaken>>

\* create_invite: an address has one row per org, whose role a new invite changes until
\* it is accepted. The loser of two insertions fails.
InviteSent(h) ==
  LET request == serving[h]
      row == invites[request.for]
      role == Named(request.role, request.seen.role)
  IN  /\ Serves(h, "invite")
      /\ request.seen.state = "none" => row.state = "none"
      /\ invites' = [invites EXCEPT ![request.for] =
           CASE request.seen.state = "none" ->
                  [role |-> Named(request.role, "member"), state |-> "pending"]
             [] request.seen.state = "pending" /\ request.seen.role # role ->
                  [row EXCEPT !.role = role]
             [] OTHER -> row]
      /\ overtaken' = IF row # request.seen
                      THEN overtaken \cup {<<"invite", request.for>>} ELSE overtaken
      /\ UNCHANGED <<links, users, orgs, members, founders, sessions>>

\* Any request may fail, and leaves nothing behind.
RequestFails(h) ==
  /\ serving[h] # Free
  /\ serving' = [serving EXCEPT ![h] = Free]
  /\ UNCHANGED <<links, users, orgs, members, founders, invites, sessions, overtaken, requests>>

HalfHourPasses ==
  /\ \E l \in DOMAIN links : links[l].age < 2
  /\ links' = [l \in DOMAIN links |-> [links[l] EXCEPT !.age = IF @ = 2 THEN 2 ELSE @ + 1]]
  /\ UNCHANGED <<users, orgs, members, founders, invites, sessions, serving, overtaken, requests>>

SignInNext ==
  \/ \E h \in Handlers :
       \/ \E e \in Emails : AskForLink(h, e)
       \/ \E l \in DOMAIN links : OpenLink(h, l)
       \/ \E s \in sessions : FoundOrg(h, s) \/ \E e \in Emails, r \in RolesSent : Invite(h, s, e, r)
       \/ SendLink(h) \/ SignUserIn(h) \/ OrgFounded(h) \/ InviteSent(h) \/ RequestFails(h)
  \/ \E s \in sessions : LogOut(s) \/ \E o \in OrgIds : SwitchOrg(s, o)
  \/ HalfHourPasses
-------------------------------------------------------------------------------
\* A link opens one session, unless two requests have it open at the same time.
LinksWorkOnce ==
  \A l \in DOMAIN links : links[l].issued > 1 => <<"verify", l>> \in overtaken

\* An address is not sent more links in an hour than the limit, used, expired or not,
\* unless two requests for it overlap.
LinksAreFew ==
  \A e \in Emails :
    Cardinality({l \in DOMAIN links : links[l].email = e /\ links[l].age < 2}) > LinksPerHour =>
      <<"ask", e>> \in overtaken

\* Invites and memberships agree: who accepted is a member in the role of the invite, also
\* when that role was changed or is that of an owner, and who is a member without having
\* founded the org accepted one. Founders stay owners, whatever they are invited as. (A
\* role changed in the moment the invite is accepted is told by the invite only.)
InviteesAreMembers ==
  \A p \in DOMAIN invites :
    /\ invites[p].state = "accepted" =>
         /\ members[p] # "none"
         /\ members[p] = invites[p].role \/ p \in founders \/ <<"invite", p>> \in overtaken
    /\ members[p] # "none" /\ p \notin founders => invites[p].state = "accepted"
    /\ p \in founders => members[p] = "owner"

\* A session acts for an org its user is a member of, whatever was founded, accepted or
\* logged out in the meantime.
SessionsBelong ==
  \A s \in sessions : Email(s) \in users /\ (s.org = 0 \/ s.org \in OrgsOf(Email(s)))
===============================================================================

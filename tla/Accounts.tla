------------------------------ MODULE Accounts ------------------------------
(***************************************************************************)
(* Accounts and Organizations: Sign-in Codes, sessions, Memberships,       *)
(* Invitations and their ends in the API (accounts/), and one tab of the   *)
(* web app with its sign-in screen, its shell and its settings.            *)
(*                                                                         *)
(* A handler that changes Memberships or Invitations is two steps: what it *)
(* reads and refuses, and what its commit writes by primary key.  Only     *)
(* transfer_ownership and accept look again under a lock.  The tab knows   *)
(* the account it is signed in with from a cached query, and every gate,   *)
(* control and header of it goes by that.                                  *)
(***************************************************************************)
EXTENDS FormBase

CONSTANTS
    Users,            \* email addresses
    OrgOrder,         \* Organizations in the order of their creation
    FirstRoles,       \* FirstRoles[o][u]: the role of u in o at first, or None
    FirstUsers,       \* addresses with an account at first
    FirstInvites,     \* Invitations at first, by id
    FirstSessions,    \* who may be signed in in the tab at first, or None
    MaxInvites,       \* bound: Invitations
    MaxAsks,          \* bound: requests under way at once
    SignupModes,      \* signup modes an instance may be set up with
    ATTEMPT_CAP,      \* wrong guesses a code takes
    ISSUANCE_LIMIT    \* codes an address may ask for within the window

VARIABLES
    role,       \* role[o][u]
    title,      \* the name of each Organization, or None when there is none
    users,      \* addresses with an account
    invites,    \* Invitations by id, or None
    codes,      \* the outstanding code of each address, or None
    mailed,     \* how many codes each address was sent
    asks,       \* requests under way
    cookie,     \* the tab's session: None, or whose and whether it is in the database
    tab,        \* the tab
    signup_mode,    \* the instance's signup mode
    stamp       \* counts the commits

orgVars == <<role, title, users, invites, signup_mode>>
accountVars == <<orgVars, codes, mailed, asks, cookie, tab, stamp>>

Orgs == Range(OrgOrder)
Role == {"owner", "admin", "member"}
AssignableRole == {"admin", "member"}
Titles == {"n1", "n2"}
Section == {"workflows", "account", "general", "members", "invitations"}

Session == [user : Users, live : BOOLEAN]
Invitation == [org : Orgs, to : Users, role : AssignableRole, stands : BOOLEAN]
Identity == [user : Users \cup {None}, role : [Orgs -> Role \cup {None}],
             title : [Orgs -> Titles \cup {None}], offers : SUBSET Nat, stamp : Nat]
Fetch == [read : BOOLEAN, got : Identity \cup {None}]

\* At first nobody shares an Organization's ownership, and whoever is invited
\* is invited by somebody in it.
ASSUME AccountsAssumption ==
    /\ None \notin Users \cup Orgs \cup Role \cup Titles
    /\ None \notin Session \cup Fetch
    /\ FirstRoles \in [Orgs -> [Users -> Role \cup {None}]]
    /\ \A o \in Orgs : \A u, v \in Users :
         FirstRoles[o][u] = "owner" /\ FirstRoles[o][v] = "owner" => u = v
    /\ FirstInvites \in Seq(Invitation \cup {None})
    /\ \A i \in DOMAIN FirstInvites : FirstInvites[i] # None =>
         \E u \in Users : FirstRoles[FirstInvites[i].org][u] # None
    /\ FirstSessions \subseteq Users \cup {None}

-----------------------------------------------------------------------------
(* The identity a tab knows, and what follows from it.                     *)

\* Identity null: nobody is signed in, or the request failed.
SignedOut == [user |-> None, role |-> [o \in Orgs |-> None],
              title |-> [o \in Orgs |-> None], offers |-> {}, stamp |-> 0]

pending_for(u) == {i \in DOMAIN invites : invites[i] # None /\ invites[i].to = u /\ invites[i].stands}

account_of(u) == [user |-> u, role |-> [o \in Orgs |-> role[o][u]], title |-> title,
                  offers |-> pending_for(u), stamp |-> stamp]

MeOf(t) == IF t.me.data = None THEN SignedOut ELSE t.me.data

\* The remembered choice if it is one of the account's, else the first.
activeOrganization(t) ==
    LET mine == SelectSeq(OrgOrder, LAMBDA o : MeOf(t).role[o] # None)
    IN IF t.choice \in Range(mine) THEN t.choice ELSE IF mine = <<>> THEN None ELSE mine[1]

activeRole(t) == IF activeOrganization(t) = None THEN None ELSE MeOf(t).role[activeOrganization(t)]

\* Which list the section shows, of which Organization.
PanelKey(t) ==
    LET o == activeOrganization(t) IN
    IF o = None THEN None
    ELSE IF t.at = "invitations" THEN <<"standing", o>>
    ELSE IF t.at = "members" \/ (t.at = "general" /\ activeRole(t) = "owner") THEN <<"members", o>>
    ELSE None

\* A list that was not on the screen before is asked for.
OnScreen(t) ==
    IF PanelKey(t) = t.key THEN t
    ELSE [t EXCEPT !.key = PanelKey(t), !.panel = IF PanelKey(t) = None THEN Query ELSE Mount(Query)]

landingAfterSignIn(t) == IF t.next = None THEN "workflows" ELSE t.next

(* The gate, and the effects that follow it: a signed-out visitor is sent  *)
(* to the sign-in screen, which mounts the identity again, a signed-in one *)
(* away from it, and a member away from the Invitations.                   *)
resolveGate(t) ==
    IF t.at = "signin" /\ MeOf(t).user # None
    THEN [t EXCEPT !.at = landingAfterSignIn(t), !.next = None, !.sent = FALSE]
    ELSE IF t.at # "signin" /\ MeOf(t).user = None
    THEN [t EXCEPT !.at = "signin", !.next = t.at, !.sent = FALSE]
    ELSE IF t.at = "invitations" /\ activeRole(t) = "member"
    THEN [t EXCEPT !.at = "account"]
    ELSE t

Gated(t) == OnScreen(resolveGate(resolveGate(t)))

\* Mutant: the cache survives.
LeavesCache(t, next) == OnScreen([t EXCEPT !.at = "signin", !.next = next, !.sent = FALSE, !.owed = 0])

\* cache.clear, and on to the sign-in screen, which asks who is there.
letGo(t, next) ==
    OnScreen([t EXCEPT !.me = Mount(Query), !.at = "signin", !.next = next, !.sent = FALSE, !.owed = 0])

\* Everything that is on the screen is asked for again.
InvalidateMe(t) == [t EXCEPT !.me = Invalidate(@), !.owed = stamp]
InvalidatePanel(t) == IF t.key = None THEN t ELSE [t EXCEPT !.panel = Invalidate(@)]

\* Mutant: the choice is forgotten and nothing asked again.
ForgetsChoice(t) == [t EXCEPT !.choice = None, !.owed = stamp]

\* installMembershipLapsed: a request was refused as not_a_member.
onLapsed(t) == InvalidatePanel(InvalidateMe([t EXCEPT !.choice = None]))

\* installUnauthorizedRedirect: a 401 clears the cache, except on the sign-in screen.
onUnauthorized(t) == IF t.at = "signin" THEN t ELSE letGo(t, t.at)

-----------------------------------------------------------------------------
(* The handlers.                                                           *)

Member(o, u) == o \in Orgs /\ u \in Users /\ role[o][u] # None
Owner(o, u) == Member(o, u) /\ role[o][u] = "owner"
pending_in(o) == {i \in DOMAIN invites : invites[i] # None /\ invites[i].org = o /\ invites[i].stands}
Owned(u) == {o \in Orgs : role[o][u] = "owner"}

(* A request: whose, what, in which Organization, about whom or what, and  *)
(* the role, name or address it carries.                                   *)
Ask(from, by, op, org, about, with) ==
    [from |-> from, by |-> by, op |-> op, org |-> org, about |-> about, with |-> with,
     stage |-> "go", seen |-> None]

Managing == {"setRole", "rename", "invite", "revoke"}
Owning == {"transfer", "end"}
OrgOps == Managing \cup Owning \cup {"remove"}

\* signed_in_user: somewhere else a person's session is that of an account.
Authed(a) ==
    /\ a.by \in users
    /\ a.from = "tab" => cookie # None /\ (cookie.user = a.by => cookie.live)

\* path_, managing_ and owning_membership, and what the handler refuses from
\* what it reads before it writes.
Verdict(a) ==
    IF ~Authed(a) THEN "unauthorized"
    ELSE IF a.op \in OrgOps /\ ~Member(a.org, a.by) THEN "lapsed"
    ELSE IF \/ a.op \in Managing /\ role[a.org][a.by] = "member"
            \/ a.op \in Owning /\ ~Owner(a.org, a.by)
            \/ a.op = "remove" /\ a.about # a.by /\ role[a.org][a.by] = "member"
            \/ a.op \in {"setRole", "remove"} /\ (~Member(a.org, a.about) \/ Owner(a.org, a.about))
            \/ a.op = "end" /\ a.with # title[a.org]
            \/ a.op = "invite" /\ (Member(a.org, a.about)
                                   \/ \E i \in pending_in(a.org) : invites[i].to = a.about)
            \/ a.op = "revoke" /\ (invites[a.about] = None \/ invites[a.about].org # a.org)
            \/ a.op = "delete" /\ Owned(a.by) # {}
         THEN "refused"
    ELSE "go"

Looked(a) ==
    [a EXCEPT !.stage = Verdict(a),
              !.seen = IF a.op = "setRole" /\ Member(a.org, a.about) THEN role[a.org][a.about] ELSE None]

\* What a commit writes: [ok, role, title, users, invites].
As(ok, r, n, us, is) == [ok |-> ok, role |-> r, title |-> n, users |-> us, invites |-> is]
Stays == As(FALSE, role, title, users, invites)
Roles(r) == As(TRUE, r, title, users, invites)

\* The UPDATE goes by primary key; a role that was read as the same is not written.
set_role(a) ==
    IF a.with = a.seen THEN Roles(role)
    ELSE IF ~Member(a.org, a.about) THEN Stays
    ELSE Roles([role EXCEPT ![a.org][a.about] = a.with])

\* A DELETE that finds nothing is no error.
remove(a) == Roles([role EXCEPT ![a.org][a.about] = None])

\* Mutant: the owner goes by what was read before.
TransferUnlocked(a) ==
    IF ~Member(a.org, a.about) THEN Stays
    ELSE Roles([role EXCEPT ![a.org] = [@ EXCEPT ![a.by] = "admin", ![a.about] = "owner"]])

\* Both Memberships are locked and read again.
transfer_ownership(a) ==
    IF ~Owner(a.org, a.by) THEN Stays
    ELSE IF a.about = a.by THEN Roles(role)
    ELSE IF ~Member(a.org, a.about) THEN Stays
    ELSE Roles([role EXCEPT ![a.org] = [@ EXCEPT ![a.by] = "admin", ![a.about] = "owner"]])

rename_organization(a) ==
    IF title[a.org] = None THEN Stays
    ELSE As(TRUE, role, [title EXCEPT ![a.org] = a.with], users, invites)

\* Memberships and Invitations go with the Organization.
end_organization(a) ==
    As(TRUE, [role EXCEPT ![a.org] = [u \in Users |-> None]], [title EXCEPT ![a.org] = None], users,
       [i \in DOMAIN invites |-> IF invites[i] # None /\ invites[i].org = a.org THEN None ELSE invites[i]])

offer(a) ==
    IF title[a.org] = None THEN Stays
    ELSE As(TRUE, role, title, users,
            Append(invites, [org |-> a.org, to |-> a.about, role |-> a.with, stands |-> TRUE]))

revoke(a) == As(TRUE, role, title, users, [invites EXCEPT ![a.about] = None])

\* The Invitation is locked; somebody who is in already keeps his role.
accept(a) ==
    LET i == invites[a.about] IN
    IF i = None \/ a.by \notin users \/ i.to # a.by \/ ~i.stands THEN Stays
    ELSE As(TRUE, IF Member(i.org, a.by) THEN role ELSE [role EXCEPT ![i.org][a.by] = i.role],
            title, users, [invites EXCEPT ![a.about] = None])

\* Memberships and sessions go with the account.
end_account(a) ==
    As(TRUE, [o \in Orgs |-> [role[o] EXCEPT ![a.by] = None]], title, users \ {a.by}, invites)

Outcome(a) ==
    CASE a.op = "setRole" -> set_role(a)
      [] a.op = "remove" -> remove(a)
      [] a.op = "transfer" -> transfer_ownership(a)
      [] a.op = "rename" -> rename_organization(a)
      [] a.op = "end" -> end_organization(a)
      [] a.op = "invite" -> offer(a)
      [] a.op = "revoke" -> revoke(a)
      [] a.op = "accept" -> accept(a)
      [] a.op = "delete" -> end_account(a)
      [] OTHER -> Roles(role)

\* end, end_all and the account's own end take sessions away.
EndsSession(a) ==
    /\ cookie # None /\ cookie.user = a.by
    /\ (a.op = "signOut" /\ a.from = "tab") \/ a.op \in {"everywhere", "delete"}

CommitAsk(k) ==
    LET a == asks[k]
        o == Outcome(a)
        bounded == a.op = "invite" => Len(invites) < MaxInvites
    IN
    /\ a.stage = "go" /\ bounded
    /\ role' = o.role /\ title' = o.title /\ users' = o.users /\ invites' = o.invites
    /\ codes' = IF a.op = "delete" THEN [codes EXCEPT ![a.by] = None] ELSE codes
    /\ cookie' = IF o.ok /\ EndsSession(a) THEN [cookie EXCEPT !.live = FALSE] ELSE cookie
    /\ stamp' = stamp + 1
    /\ asks' = IF a.from = "tab" THEN [asks EXCEPT ![k].stage = IF o.ok THEN "done" ELSE "refused"]
               ELSE RemoveAt(asks, k)
    /\ UNCHANGED <<signup_mode, mailed, tab, published, left>>

\* A request of somebody elsewhere; one that is refused leaves nothing.
Away(op, asked) ==
    /\ Act(op) /\ Len(asks) < MaxAsks
    /\ \E a \in asked : Verdict(a) = "go" /\ asks' = Append(asks, Looked(a))
    /\ UNCHANGED <<orgVars, codes, mailed, cookie, tab, stamp, published>>

AwayRoles ==
    Away("roles", {Ask("away", u, "setRole", o, v, r) : u \in users, o \in Orgs, v \in Users, r \in AssignableRole}
         \cup {Ask("away", u, op, o, v, None) :
                  u \in users, op \in {"remove", "transfer"}, o \in Orgs, v \in Users})
AwayOffers ==
    Away("offers", {Ask("away", u, "invite", o, v, r) : u \in users, o \in Orgs, v \in Users, r \in AssignableRole}
         \cup {Ask("away", u, "revoke", o, i, None) : u \in users, o \in Orgs, i \in DOMAIN invites}
         \cup {Ask("away", u, "accept", None, i, None) : u \in users, i \in DOMAIN invites})
AwayEnds ==
    Away("ends", {Ask("away", u, "end", o, None, title[o]) : u \in users, o \in Orgs}
         \cup {Ask("away", u, op, None, None, None) : u \in users, op \in {"everywhere", "delete"}})

\* Time passes for an Invitation, a code or the tab's session.
Expires ==
    /\ Act("ends")
    /\ \/ \E i \in DOMAIN invites :
            /\ invites[i] # None /\ invites[i].stands /\ invites' = [invites EXCEPT ![i].stands = FALSE]
            /\ UNCHANGED <<codes, cookie>>
       \/ \E u \in Users :
            /\ codes[u] # None /\ codes' = [codes EXCEPT ![u] = None] /\ UNCHANGED <<invites, cookie>>
       \/ /\ cookie # None /\ cookie.live /\ cookie' = [cookie EXCEPT !.live = FALSE]
          /\ UNCHANGED <<invites, codes>>
    /\ UNCHANGED <<role, title, users, signup_mode, mailed, asks, tab, stamp, published>>

-----------------------------------------------------------------------------
(* The sign-in screen.  Its two requests are answered at once: what may    *)
(* happen in between may as well happen before.                            *)

AtSignIn == tab.at = "signin" /\ tab.me.data # None /\ Act("signin")

\* request_code replaces the address's code.
request_code(u) ==
    IF mailed[u] >= ISSUANCE_LIMIT THEN UNCHANGED <<codes, mailed, tab>>
    ELSE /\ mailed' = [mailed EXCEPT ![u] = @ + 1]
         /\ codes' = [codes EXCEPT ![u] = [n |-> mailed[u] + 1, tries |-> 0]]
         /\ tab' = [tab EXCEPT !.email = u, !.sent = TRUE]

\* Continue, or Send a new code: the address is the one typed before.
askForCode ==
    /\ AtSignIn
    /\ \E u \in (IF tab.sent THEN {tab.email} ELSE Users) : request_code(u)
    /\ UNCHANGED <<orgVars, asks, cookie, stamp, published>>

UseADifferentEmail ==
    /\ AtSignIn /\ tab.sent
    /\ tab' = [tab EXCEPT !.sent = FALSE]
    /\ UNCHANGED <<orgVars, codes, mailed, asks, cookie, stamp, published>>

claim(u, n) ==
    CASE codes[u] = None -> "wrong"
      [] codes[u] # None /\ codes[u].tries >= ATTEMPT_CAP -> "exhausted"
      [] codes[u] # None /\ codes[u].tries < ATTEMPT_CAP ->
            IF codes[u].n = n THEN "accepted" ELSE "wrong"

may_sign_up(u) == signup_mode = "open" \/ pending_for(u) # {}

\* A new account has an Organization of its own only where signup is open.
create_account(u) ==
    /\ users' = users \cup {u}
    /\ IF signup_mode = "open"
       THEN \E o \in Orgs :
              /\ title[o] = None
              /\ title' = [title EXCEPT ![o] = "n1"] /\ role' = [role EXCEPT ![o][u] = "owner"]
       ELSE UNCHANGED <<role, title>>

\* An accepted code signs in; where nobody may sign up it is spent for nothing.
Accepted(u) ==
    /\ codes' = [codes EXCEPT ![u] = None]
    /\ \/ u \in users /\ UNCHANGED <<users, role, title>>
       \/ u \notin users /\ may_sign_up(u) /\ create_account(u)
       \/ u \notin users /\ ~may_sign_up(u) /\ UNCHANGED <<users, role, title>>
    /\ stamp' = stamp + 1

(* verify_code, with its answer: the cookie is set and the identity asked  *)
(* for again.  When the answer is lost the code is spent all the same.     *)
signIn ==
    /\ AtSignIn /\ tab.sent
    /\ \E n \in 0 .. mailed[tab.email] :
         LET u == tab.email
             c == claim(u, n)
         IN IF c = "accepted"
            THEN /\ Accepted(u)
                 /\ IF u \in users'
                    THEN \/ /\ cookie' = [user |-> u, live |-> TRUE]
                            /\ tab' = [tab EXCEPT !.me = Invalidate(@), !.owed = stamp']
                         \/ left.troubles > 0 /\ UNCHANGED <<cookie, tab>>
                    ELSE UNCHANGED <<cookie, tab>>
            ELSE /\ codes' = IF c = "wrong" /\ codes[u] # None
                             THEN [codes EXCEPT ![u].tries = @ + 1] ELSE codes
                 /\ UNCHANGED <<users, role, title, cookie, tab, stamp>>
    /\ UNCHANGED <<invites, signup_mode, mailed, asks, published>>

-----------------------------------------------------------------------------
(* The tab: its queries.                                                   *)

SessionLives == cookie # None /\ cookie.live

getCurrentAccount ==
    /\ tab.me.fetch # None /\ ~tab.me.fetch.read
    /\ tab' = [tab EXCEPT !.me = Read(@, IF SessionLives THEN account_of(cookie.user) ELSE SignedOut)]
    /\ UNCHANGED <<orgVars, codes, mailed, asks, cookie, stamp, published, left>>

\* The identity is null as well when its request fails.
MeArrives ==
    /\ tab.me.fetch # None
    /\ \/ /\ tab.me.fetch.read /\ UNCHANGED left
          /\ tab' = IF tab.me.fetch.got.user = None /\ tab.at # "signin"
                    THEN onUnauthorized(tab)
                    ELSE Gated([tab EXCEPT !.me = Arrive(@)])
       \/ Trouble /\ tab' = Gated([tab EXCEPT !.me = [Query EXCEPT !.data = SignedOut]])
    /\ UNCHANGED <<orgVars, codes, mailed, asks, cookie, stamp, published>>

\* listMembers and listInvitations.
readPanel ==
    LET o == tab.key[2]
        u == cookie.user
        got == IF ~SessionLives THEN [is |-> "unauthorized", rows |-> {}]
               ELSE IF ~Member(o, u) THEN [is |-> "lapsed", rows |-> {}]
               ELSE IF tab.key[1] = "members"
                    THEN [is |-> "rows", rows |-> {<<v, role[o][v]>> : v \in {w \in Users : Member(o, w)}}]
               ELSE IF role[o][u] = "member" THEN [is |-> "refused", rows |-> {}]
               ELSE [is |-> "rows", rows |-> pending_in(o)]
    IN
    /\ tab.key # None /\ tab.panel.fetch # None /\ ~tab.panel.fetch.read
    /\ tab' = [tab EXCEPT !.panel = Read(@, got)]
    /\ UNCHANGED <<orgVars, codes, mailed, asks, cookie, stamp, published, left>>

\* A list that is refused or fails is empty.
PanelArrives ==
    LET is == tab.panel.fetch.got.is
        listed == [tab EXCEPT !.panel = [Query EXCEPT !.data = tab.panel.fetch.got.rows]]
    IN
    /\ tab.key # None /\ tab.panel.fetch # None
    /\ \/ /\ tab.panel.fetch.read /\ UNCHANGED left
          /\ tab' = CASE is = "unauthorized" -> onUnauthorized(tab)
                      [] is = "lapsed" /\ tab.panel.data = None ->
                            Gated([listed EXCEPT !.me = Invalidate(@), !.choice = None, !.owed = stamp])
                      [] is = "lapsed" /\ tab.panel.data # None -> Gated(onLapsed(tab))
                      [] OTHER -> listed
       \/ Trouble /\ tab' = [tab EXCEPT !.panel = [Query EXCEPT !.data = {}]]
    /\ UNCHANGED <<orgVars, codes, mailed, asks, cookie, stamp, published>>

-----------------------------------------------------------------------------
(* The tab: what a person does in the shell and its settings.              *)

Goes(t) == /\ Act("look") /\ tab' = Gated(t)
           /\ UNCHANGED <<orgVars, codes, mailed, asks, cookie, stamp, published>>

Navigate == tab.at # "signin" /\ \E s \in Section \ {tab.at} : Goes([tab EXCEPT !.at = s])

\* Stale queries are asked again when the window is looked at.
LookAgain == \E stale \in BOOLEAN :
    Goes([tab EXCEPT !.me = IF stale THEN Mount(@) ELSE @,
                     !.panel = IF tab.key # None THEN Mount(@) ELSE @])

\* The switcher of the user menu.
ChooseOrganization ==
    /\ tab.at # "signin"
    /\ \E o \in Orgs \ {activeOrganization(tab)} :
         /\ MeOf(tab).role[o] # None
         /\ Goes(InvalidatePanel(InvalidateMe([tab EXCEPT !.choice = o])))

Sends(kind, op, about, with) ==
    LET by == IF cookie = None THEN None ELSE cookie.user IN
    /\ tab.at # "signin" /\ Act(kind) /\ Len(asks) < MaxAsks
    /\ \A k \in DOMAIN asks : ~(asks[k].from = "tab" /\ asks[k].op = op)
    /\ asks' = Append(asks, Looked(Ask("tab", by, op, activeOrganization(tab), about, with)))
    /\ UNCHANGED <<orgVars, codes, mailed, cookie, tab, stamp, published>>

memberControls(v, r) ==
    LET mine == activeRole(tab)
        self == v = MeOf(tab).user
        others == r # "owner" /\ ~self /\ mine # "member"
    IN [changeRole |-> others, remove |-> others, leave |-> r # "owner" /\ self /\ mine # "owner",
        makeOwner |-> others /\ mine = "owner"]

Listed(s, kind) == tab.at = s /\ tab.key # None /\ tab.key[1] = kind /\ tab.panel.data # None

MembersPage ==
    /\ Listed("members", "members")
    /\ \E row_ \in tab.panel.data :
         LET v == row_[1]
             controls == memberControls(v, row_[2])
         IN \/ controls.changeRole /\ \E r \in AssignableRole \ {row_[2]} : Sends("manage", "setRole", v, r)
            \/ (controls.remove \/ controls.leave) /\ Sends("manage", "remove", v, None)

mayRename == activeRole(tab) \in {"owner", "admin"}
mayEnd == activeRole(tab) = "owner"

\* The cards of the page, each with the name the identity shows.
ShownName == MeOf(tab).title[activeOrganization(tab)]
NameCard == mayRename /\ \E n \in Titles \ {ShownName} : Sends("manage", "rename", None, n)
HandItOn ==
    /\ mayEnd /\ Listed("general", "members")
    /\ \E row_ \in tab.panel.data :
         memberControls(row_[1], row_[2]).makeOwner /\ Sends("manage", "transfer", row_[1], None)
EndIt == mayEnd /\ Sends("manage", "end", None, ShownName)

GeneralPage ==
    tab.at = "general" /\ activeOrganization(tab) # None /\ (NameCard \/ HandItOn \/ EndIt)

InvitationsPage ==
    /\ tab.at = "invitations" /\ activeOrganization(tab) # None
    /\ \/ \E v \in Users, r \in AssignableRole : Sends("manage", "invite", v, r)
       \/ /\ Listed("invitations", "standing")
          /\ \E i \in tab.panel.data : Sends("manage", "revoke", i, None)

PendingInvitations == \E i \in MeOf(tab).offers : Sends("manage", "accept", i, None)

EverySession == Sends("leave", "everywhere", None, None)
DangerZone ==
    {o \in Orgs : MeOf(tab).role[o] = "owner"} = {} /\ Sends("leave", "delete", None, None)
AccountPage == tab.at = "account" /\ (EverySession \/ DangerZone)

UserMenu == Sends("leave", "signOut", None, None)

-----------------------------------------------------------------------------
(* The tab: answers.                                                       *)

Leaving == {"signOut", "everywhere", "delete"}
PanelOf(op) == IF op \in {"invite", "revoke"} THEN "standing" ELSE "members"
RefreshPanel(t, a) == IF t.key = <<PanelOf(a.op), a.org>> THEN InvalidatePanel(t) ELSE t

onSuccess(t, a) ==
    CASE a.op \in Leaving -> letGo(t, None)
      [] a.op \in {"setRole", "remove", "transfer"} -> RefreshPanel(InvalidateMe(t), a)
      [] a.op \in {"invite", "revoke"} -> RefreshPanel(t, a)
      [] a.op = "end" -> InvalidatePanel(InvalidateMe(t))
      [] OTHER -> InvalidateMe(t)

\* Signing out leaves whatever the answer says.
Leaves(t, a) == IF a.op \in {"signOut", "everywhere"} THEN letGo(t, None) ELSE t

AskAnswers(k) ==
    LET a == asks[k] IN
    /\ a.from = "tab" /\ a.stage # "go"
    /\ asks' = RemoveAt(asks, k)
    /\ \/ /\ UNCHANGED left
          /\ cookie' = IF a.stage = "done" /\ a.op \in Leaving THEN None ELSE cookie
          /\ tab' = CASE a.stage = "done" -> Gated(onSuccess(tab, a))
                      [] a.stage = "lapsed" -> Gated(onLapsed(tab))
                      [] a.stage = "unauthorized" -> Leaves(onUnauthorized(tab), a)
                      [] OTHER -> tab
       \/ Trouble /\ tab' = Leaves(tab, a) /\ UNCHANGED cookie
    /\ UNCHANGED <<orgVars, codes, mailed, stamp, published>>

-----------------------------------------------------------------------------

AccountOps == {"signin", "look", "manage", "leave", "roles", "offers", "ends"}
TabOps == {"look", "manage", "leave"}

AccountsInit ==
    /\ role = FirstRoles /\ users = FirstUsers /\ invites = FirstInvites
    /\ title = [o \in Orgs |-> IF \E u \in Users : role[o][u] # None THEN "n1" ELSE None]
    /\ codes = [u \in Users |-> None] /\ mailed = [u \in Users |-> 0]
    /\ asks = <<>> /\ stamp = 0
    /\ signup_mode \in IF "signin" \in left.ops THEN SignupModes ELSE {"invite_only"}
    /\ \E u \in (IF left.ops \cap AccountOps = {} THEN {None} ELSE FirstSessions) :
         cookie = IF u = None THEN None ELSE [user |-> u, live |-> TRUE]
    /\ \E s \in (IF left.ops \cap TabOps = {} THEN {"workflows"} ELSE Section) :
         tab = Gated([at |-> s, next |-> None, email |-> None, sent |-> FALSE, choice |-> None,
                      me |-> IF left.ops \cap AccountOps = {} THEN Query ELSE Mount(Query),
                      key |-> None, panel |-> Query, owed |-> 0])

AccountsNext ==
    \/ AwayRoles \/ AwayOffers \/ AwayEnds \/ Expires \/ askForCode \/ UseADifferentEmail \/ signIn
    \/ getCurrentAccount \/ MeArrives \/ readPanel \/ PanelArrives
    \/ Navigate \/ LookAgain \/ ChooseOrganization
    \/ MembersPage \/ GeneralPage \/ InvitationsPage \/ PendingInvitations \/ AccountPage \/ UserMenu
    \/ \E k \in DOMAIN asks : CommitAsk(k) \/ AskAnswers(k)

AccountsTypeOK ==
    /\ role \in [Orgs -> [Users -> Role \cup {None}]]
    /\ \A o \in Orgs : title[o] \in Titles \cup {None}
                      /\ (title[o] = None => \A u \in Users : role[o][u] = None)
    /\ users \subseteq Users /\ \A o \in Orgs, u \in Users \ users : role[o][u] = None
    /\ \A u \in Users : codes[u] # None => codes[u].tries \in 0 .. ATTEMPT_CAP
    /\ cookie # None /\ cookie.live => cookie.user \in users
    /\ tab.at \in Section \cup {"signin"}
    /\ tab.at # "signin" => MeOf(tab).user # None

-----------------------------------------------------------------------------
(* Properties.                                                             *)

(* An Organization never has two owners, however transfers, role changes,  *)
(* removals and accepted Invitations overlap (members.py:                  *)
(* transfer_ownership reads again under its locks).                        *)
OneOwner == \A o \in Orgs : \A u, v \in Users : Owner(o, u) /\ Owner(o, v) => u = v

(* The account a tab shows is the one its cookie is for, after signing     *)
(* out, signing in as somebody else, and answers that come late; where it  *)
(* is not yet, the tab is already asking (identity.ts: letGo).             *)
OwnData ==
    MeOf(tab).user # None /\ tab.me.fetch = None => cookie # None /\ cookie.user = MeOf(tab).user

(* What a tab did, and that a Membership lapsed under it, reaches its      *)
(* identity: "A not_a_member response clears the remembered Organization   *)
(* and refreshes identity" (docs/ARCHITECTURE.md), whatever older answers  *)
(* are on their way.                                                       *)
IdentityCatchesUp == []<>(MeOf(tab).user = None \/ MeOf(tab).stamp >= tab.owed)
=============================================================================

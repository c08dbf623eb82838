---------------------------- MODULE FormsProofs ----------------------------
(***************************************************************************)
(* Proofs about Forms for any number of people, Organizations, Invitations *)
(* and requests under way: an Organization has one owner at most, and a    *)
(* tab shows the account its cookie is for.  The second half is about the  *)
(* values of Batches, Schedules and Runs: what the forms store is complete *)
(* and as it was given.                                                    *)
(*                                                                         *)
(* Ownership is given in two places, a transfer, which looks again under   *)
(* its locks, and a new Organization, which nobody is in yet: Peopled.     *)
(* What a handler carries from its reads to its commit is never "owner":   *)
(* Sane.  An answer under way to "who am I" was read for the cookie there  *)
(* is: every change of the cookie drops that answer.                       *)
(***************************************************************************)
EXTENDS Forms, SequenceTheorems, FiniteSetTheorems, TLAPS

(* The database: Memberships r, names n, Invitations is.  An Organization  *)
(* that is gone has nobody in it, and invites nobody.                      *)
DBType(r, n, is) ==
    /\ r \in [Orgs -> [Users -> Role \cup {None}]]
    /\ n \in [Orgs -> Titles \cup {None}]
    /\ is \in Seq(Invitation \cup {None})

Peopled(r, n) == \A o \in Orgs : n[o] = None => \A u \in Users : r[o][u] = None
Invited(n, is) == \A i \in DOMAIN is : is[i] # None => n[is[i].org] # None
SoleOwners(r) == \A o \in Orgs : \A u, v \in Users : r[o][u] = "owner" /\ r[o][v] = "owner" => u = v

DBOK(r, n, is) == DBType(r, n, is) /\ Peopled(r, n) /\ Invited(n, is) /\ SoleOwners(r)

\* What a request carries to its commit, with n Invitations there have been.
Sane(a, n) ==
    /\ {"from", "by", "op", "org", "about", "with", "stage", "seen"} \subseteq DOMAIN a
    /\ a.op \in {"setRole", "invite"} => a.with \in AssignableRole
    /\ a.op = "invite" => a.about \in Users
    /\ a.op = "rename" => a.with \in Titles
    /\ a.op = "accept" => a.about \in 1 .. n
    /\ a.op \in OrgOps /\ a.stage = "go" => a.org \in Orgs

\* The requests q under way are sane.
AsksOK(q, n) == \E A : q \in Seq(A) /\ \A a \in A : Sane(a, n)

(* The tab.                                                                *)
MeQuery == [data : Identity \cup {None}, fetch : Fetch \cup {None}, error : BOOLEAN]

\* The identity d is of the session c, or of nobody.
Of(d, c) == d # None /\ d.user # None => c # None /\ c.user = d.user

\* The identity q is known by, and the answer under way.
MeOK(q, c, n) ==
    /\ q \in MeQuery
    /\ q.data # None => q.data.offers \subseteq 1 .. n
    /\ q.fetch = None => Of(q.data, c)
    /\ q.fetch # None /\ q.fetch.read => /\ Of(q.fetch.got, c)
                                         /\ q.fetch.got # None => q.fetch.got.offers \subseteq 1 .. n

TabFields == {"at", "next", "email", "sent", "choice", "me", "key", "panel", "owed"}

TabOK ==
    /\ TabFields \subseteq DOMAIN tab
    /\ tab.sent => tab.email \in Users
    /\ MeOK(tab.me, cookie, Len(invites))

Inv ==
    /\ DBOK(role, title, invites) /\ stamp \in Nat
    /\ AsksOK(asks, Len(invites))
    /\ cookie \in Session \cup {None}
    /\ TabOK

-----------------------------------------------------------------------------
(* The tab's operators.                                                    *)

\* u is the tab t but for where it is and what its lists show.
Like(t, u) ==
    /\ DOMAIN u = DOMAIN t
    /\ u.me = t.me /\ u.email = t.email /\ (u.sent => t.sent)

(* Neither the gate nor the lists touch the identity.                      *)
LEMMA OnScreenLike ==
    ASSUME NEW t, TabFields \subseteq DOMAIN t
    PROVE  Like(t, OnScreen(t))
  <1> DEFINE p == IF PanelKey(t) = None THEN Query ELSE Mount(Query)
             u == [t EXCEPT !.key = PanelKey(t), !.panel = p]
  <1>1. OnScreen(t) = t \/ OnScreen(t) = u
    BY DEF OnScreen
  <1>2. Like(t, u)
    BY DEF Like, TabFields
  <1>3. Like(t, t)
    BY DEF Like
  <1> QED BY <1>1, <1>2, <1>3

LEMMA GateLike ==
    ASSUME NEW t, TabFields \subseteq DOMAIN t
    PROVE  Like(t, resolveGate(t))
  <1> DEFINE a == [t EXCEPT !.at = landingAfterSignIn(t), !.next = None, !.sent = FALSE]
             b == [t EXCEPT !.at = "signin", !.next = t.at, !.sent = FALSE]
             c == [t EXCEPT !.at = "account"]
  <1>1. resolveGate(t) \in {a, b, c, t}
    BY DEF resolveGate
  <1>2. Like(t, a) /\ Like(t, b) /\ Like(t, c) /\ Like(t, t)
    BY DEF Like, TabFields
  <1> QED BY <1>1, <1>2

LEMMA GatedLike ==
    ASSUME NEW t, TabFields \subseteq DOMAIN t
    PROVE  Like(t, Gated(t))
  <1> DEFINE u == resolveGate(t)
             v == resolveGate(u)
  <1>1. Like(t, u)
    BY GateLike
  <1>2. TabFields \subseteq DOMAIN u
    BY <1>1 DEF Like
  <1> HIDE DEF u
  <1>3. Like(u, v)
    BY <1>2, GateLike
  <1>4. TabFields \subseteq DOMAIN v
    BY <1>2, <1>3 DEF Like
  <1> HIDE DEF v
  <1>5. Like(v, OnScreen(v))
    BY <1>4, OnScreenLike
  <1>6. Gated(t) = OnScreen(v)
    BY DEF Gated, u, v
  <1> QED BY <1>1, <1>3, <1>5, <1>6 DEF Like

(* The constants.                                                          *)
LEMMA NoneIsNone ==
    /\ \A f \in Fetch : f # None
    /\ \A c \in Session : c # None
    /\ Begin \in Fetch /\ Begin # None /\ Begin.read = FALSE
    /\ "owner" # None /\ None \notin Titles /\ None \notin Role /\ None \notin Users
  <1>1. None \notin Users \cup Orgs \cup Role \cup Titles /\ None \notin Session \cup Fetch
    BY AccountsAssumption
  <1>2. Begin \in Fetch /\ Begin.read = FALSE
    BY DEF Begin, Fetch
  <1> QED BY <1>1, <1>2 DEF Role

(* Nobody's identity.                                                      *)
LEMMA SignedOutIs == SignedOut \in Identity /\ SignedOut.user = None /\ SignedOut.offers = {}
  BY DEF SignedOut, Identity

(* A query that asks again forgets the answer under way, and shows what it *)
(* showed: nothing is claimed of the session until the answer is in.       *)
LEMMA AskedAgain ==
    ASSUME NEW q \in MeQuery, NEW c, NEW n, q.data # None => q.data.offers \subseteq 1 .. n
    PROVE  MeOK([q EXCEPT !.fetch = Begin], c, n)
  <1> DEFINE p == [q EXCEPT !.fetch = Begin]
  <1>1. p \in MeQuery /\ p.data = q.data /\ p.fetch = Begin
    BY NoneIsNone DEF MeQuery
  <1> HIDE DEF p
  <1>2. MeOK(p, c, n)
    BY <1>1, NoneIsNone DEF MeOK
  <1> QED BY <1>2 DEF p

LEMMA QueryIs == Query \in MeQuery /\ Query.data = None /\ Query.fetch = None
  BY DEF Query, MeQuery

LEMMA MountOK == ASSUME NEW q, NEW c, NEW n, MeOK(q, c, n) PROVE MeOK(Mount(q), c, n)
  <1>1. q \in MeQuery /\ (q.data # None => q.data.offers \subseteq 1 .. n)
    BY DEF MeOK
  <1>2. MeOK([q EXCEPT !.fetch = Begin], c, n)
    BY <1>1, AskedAgain
  <1>3. Mount(q) = q \/ Mount(q) = [q EXCEPT !.fetch = Begin]
    BY DEF Mount
  <1> QED BY <1>2, <1>3

LEMMA InvalidateOK == ASSUME NEW q, NEW c, NEW n, MeOK(q, c, n) PROVE MeOK(Invalidate(q), c, n)
  <1>1. q \in MeQuery /\ (q.data # None => q.data.offers \subseteq 1 .. n)
    BY DEF MeOK
  <1>2. MeOK([q EXCEPT !.fetch = Begin], c, n)
    BY <1>1, AskedAgain
  <1>3. Invalidate(q) = Mount(q) \/ Invalidate(q) = [q EXCEPT !.fetch = Begin]
    BY DEF Invalidate
  <1> QED BY <1>2, <1>3, MountOK

(* The sign-in screen has an answer before it asks, so that it drops an    *)
(* older one: whatever the session c becomes, its identity is asked for.   *)
LEMMA SignedInOK ==
    ASSUME NEW q, NEW b, NEW n, MeOK(q, b, n), q.data # None, NEW c
    PROVE  MeOK(Invalidate(q), c, n)
  <1>1. Invalidate(q) = [q EXCEPT !.fetch = Begin] /\ q \in MeQuery /\ q.data.offers \subseteq 1 .. n
    BY DEF Invalidate, MeOK
  <1> QED BY <1>1, AskedAgain

(* An empty cache.                                                         *)
LEMMA EmptyOK == ASSUME NEW c, NEW n PROVE MeOK(Mount(Query), c, n)
  <1>1. Mount(Query) = [Query EXCEPT !.fetch = Begin]
    BY QueryIs DEF Mount
  <1> QED BY <1>1, QueryIs, AskedAgain

LEMMA NullOK == ASSUME NEW c, NEW n PROVE MeOK([Query EXCEPT !.data = SignedOut], c, n)
  <1> DEFINE p == [Query EXCEPT !.data = SignedOut]
  <1>1. p \in MeQuery /\ p.data = SignedOut /\ p.fetch = None
    BY QueryIs, SignedOutIs DEF MeQuery
  <1> HIDE DEF p
  <1>2. MeOK(p, c, n)
    BY <1>1, SignedOutIs DEF MeOK, Of
  <1> QED BY <1>2 DEF p

LEMMA ReadOK ==
    ASSUME NEW q, NEW c, NEW n, MeOK(q, c, n), NEW d \in Identity, Of(d, c), d.offers \subseteq 1 .. n
    PROVE  MeOK(Read(q, d), c, n)
  <1> DEFINE f == [read |-> TRUE, got |-> d]
             p == [q EXCEPT !.fetch = f]
  <1>1. f \in Fetch /\ f.read = TRUE /\ f.got = d
    BY DEF Fetch
  <1> HIDE DEF f
  <1>2. p \in MeQuery /\ p.data = q.data /\ p.fetch = f /\ f # None
    BY <1>1, NoneIsNone DEF MeOK, MeQuery
  <1>3. Read(q, d) = p
    BY DEF Read, f
  <1> HIDE DEF p
  <1> QED BY <1>1, <1>2, <1>3 DEF MeOK

LEMMA ArriveOK ==
    ASSUME NEW q, NEW c, NEW n, MeOK(q, c, n), q.fetch # None, q.fetch.read
    PROVE  MeOK(Arrive(q), c, n)
  <1> DEFINE p == [data |-> q.fetch.got, fetch |-> None, error |-> FALSE]
  <1>1. q.fetch \in Fetch
    BY DEF MeOK, MeQuery
  <1>2. q.fetch.got \in Identity \cup {None}
    BY <1>1 DEF Fetch
  <1>3. p \in MeQuery /\ p.data = q.fetch.got /\ p.fetch = None
    BY <1>2 DEF MeQuery
  <1>4. Arrive(q) = p
    BY DEF Arrive
  <1> HIDE DEF p
  <1> QED BY <1>3, <1>4 DEF MeOK

(* More Invitations, or a session ended but still the tab's.               *)
LEMMA MoreOK ==
    ASSUME NEW q, NEW b, NEW c, NEW n \in Nat, NEW m \in Nat, MeOK(q, b, n), n <= m,
           b # None => c # None /\ c.user = b.user
    PROVE  MeOK(q, c, m)
  <1>1. 1 .. n \subseteq 1 .. m
    OBVIOUS
  <1>2. \A d : Of(d, b) => Of(d, c)
    BY DEF Of
  <1>3. q \in MeQuery /\ (q.data # None => q.data.offers \subseteq 1 .. m)
    BY <1>1 DEF MeOK
  <1>4. q.fetch = None => Of(q.data, c)
    BY <1>2 DEF MeOK
  <1>5. q.fetch # None /\ q.fetch.read => Of(q.fetch.got, c)
    BY <1>2 DEF MeOK
  <1>6. q.fetch # None /\ q.fetch.read /\ q.fetch.got # None => q.fetch.got.offers \subseteq 1 .. m
    BY <1>1 DEF MeOK
  <1> QED BY <1>3, <1>4, <1>5, <1>6 DEF MeOK

-----------------------------------------------------------------------------
(* Requests under way.                                                     *)

LEMMA AskIsSane ==
    ASSUME NEW q, NEW n, AsksOK(q, n), NEW k \in DOMAIN q
    PROVE  Sane(q[k], n)
  <1>1. PICK A : q \in Seq(A) /\ \A a \in A : Sane(a, n)
    BY DEF AsksOK
  <1>2. k \in 1 .. Len(q)
    BY <1>1, LenProperties
  <1>3. q[k] \in A
    BY <1>1, <1>2, ElementOfSeq
  <1> QED BY <1>1, <1>3

LEMMA AppendOK ==
    ASSUME NEW q, NEW n, AsksOK(q, n), NEW a, Sane(a, n)
    PROVE  AsksOK(Append(q, a), n)
  <1>1. PICK A : q \in Seq(A) /\ \A b \in A : Sane(b, n)
    BY DEF AsksOK
  <1> DEFINE B == A \cup {a}
  <1>2. q \in Seq(B)
    BY <1>1, SeqMonotonic
  <1>3. Append(q, a) \in Seq(B)
    BY <1>2, AppendProperties
  <1>4. \A b \in B : Sane(b, n)
    BY <1>1
  <1> HIDE DEF B
  <1> QED BY <1>3, <1>4 DEF AsksOK

LEMMA RemoveOK ==
    ASSUME NEW q, NEW n, AsksOK(q, n), NEW k \in DOMAIN q
    PROVE  AsksOK(RemoveAt(q, k), n)
  <1>1. PICK A : q \in Seq(A) /\ \A b \in A : Sane(b, n)
    BY DEF AsksOK
  <1>2. Len(q) \in Nat /\ k \in 1 .. Len(q)
    BY <1>1, LenProperties
  <1>3. \A i \in 1 .. Len(q) : q[i] \in A
    BY <1>1, ElementOfSeq
  <1>4. /\ k - 1 \in Int /\ k + 1 \in Int
        /\ \A i \in 1 .. k - 1 : i \in 1 .. Len(q)
        /\ \A i \in k + 1 .. Len(q) : i \in 1 .. Len(q)
    BY <1>2
  <1>5. SubSeq(q, 1, k - 1) \in Seq(A)
    BY <1>3, <1>4, SubSeqProperties
  <1>6. SubSeq(q, k + 1, Len(q)) \in Seq(A)
    BY <1>2, <1>3, <1>4, SubSeqProperties
  <1>7. RemoveAt(q, k) \in Seq(A)
    BY <1>5, <1>6, ConcatProperties DEF RemoveAt
  <1> QED BY <1>1, <1>7 DEF AsksOK

LEMMA ReplaceOK ==
    ASSUME NEW q, NEW n, AsksOK(q, n), NEW k \in DOMAIN q, NEW a, Sane(a, n)
    PROVE  AsksOK([q EXCEPT ![k] = a], n)
  <1>1. PICK A : q \in Seq(A) /\ \A b \in A : Sane(b, n)
    BY DEF AsksOK
  <1> DEFINE B == A \cup {a}
  <1>2. q \in Seq(B) /\ a \in B
    BY <1>1, SeqMonotonic
  <1>3. k \in 1 .. Len(q)
    BY <1>1, LenProperties
  <1>4. [q EXCEPT ![k] = a] \in Seq(B)
    BY <1>2, <1>3, ExceptSeq
  <1>5. \A b \in B : Sane(b, n)
    BY <1>1
  <1> HIDE DEF B
  <1> QED BY <1>4, <1>5 DEF AsksOK

LEMMA MoreAsksOK ==
    ASSUME NEW q, NEW n \in Nat, NEW m \in Nat, n <= m, AsksOK(q, n)
    PROVE  AsksOK(q, m)
  <1>1. \A a : Sane(a, n) => Sane(a, m)
    BY DEF Sane
  <1> QED BY <1>1 DEF AsksOK

(* A request of nothing but a Membership, an Invitation or an account,     *)
(* once it has looked.                                                     *)
LEMMA LookedIs ==
    ASSUME NEW from, NEW by, NEW op, NEW org, NEW about, NEW with, NEW n,
           op \in {"setRole", "invite"} => with \in AssignableRole,
           op = "invite" => about \in Users,
           op = "rename" => with \in Titles,
           op = "accept" => about \in 1 .. n
    PROVE  Sane(Looked(Ask(from, by, op, org, about, with)), n)
  <1> DEFINE a == Ask(from, by, op, org, about, with)
             seen == IF a.op = "setRole" /\ Member(a.org, a.about) THEN role[a.org][a.about] ELSE None
             b == [a EXCEPT !.stage = Verdict(a), !.seen = seen]
  <1>1. /\ DOMAIN a = {"from", "by", "op", "org", "about", "with", "stage", "seen"}
        /\ a.op = op /\ a.org = org /\ a.about = about /\ a.with = with
    BY DEF Ask
  <1>2. Looked(a) = b
    BY DEF Looked
  <1>3. Verdict(a) = "go" /\ op \in OrgOps => org \in Orgs
    BY <1>1 DEF Verdict, Member
  <1> HIDE DEF a, seen
  <1>4. /\ DOMAIN b = DOMAIN a /\ b.stage = Verdict(a)
        /\ b.op = op /\ b.org = org /\ b.about = about /\ b.with = with
    BY <1>1
  <1> HIDE DEF b
  <1>5. Sane(b, n)
    BY <1>1, <1>3, <1>4 DEF Sane
  <1> QED BY <1>2, <1>5 DEF a

-----------------------------------------------------------------------------
(* What a commit writes.                                                   *)

LEMMA FunctionIsSeq ==
    ASSUME NEW S, NEW n \in Nat, NEW f \in [1 .. n -> S]
    PROVE  f \in Seq(S) /\ Len(f) = n
  <1>1. f \in Seq(S)
    BY SeqDef
  <1>2. DOMAIN f = 1 .. n /\ DOMAIN f = 1 .. Len(f) /\ Len(f) \in Nat
    BY <1>1, LenProperties
  <1> QED BY <1>1, <1>2

(* A Membership of an Organization there is gets a role that is not the    *)
(* owner's, or goes.                                                       *)
LEMMA RoleWritten ==
    ASSUME NEW r, NEW n, NEW is, DBOK(r, n, is), NEW o \in Orgs, NEW u \in Users,
           NEW v \in AssignableRole \cup {None}, v # None => n[o] # None
    PROVE  DBOK([r EXCEPT ![o][u] = v], n, is)
  <1> DEFINE s == [r EXCEPT ![o][u] = v]
  <1>1. v # "owner" /\ v \in Role \cup {None}
    BY NoneIsNone DEF AssignableRole, Role
  <1>2. r \in [Orgs -> [Users -> Role \cup {None}]]
    BY DEF DBOK, DBType
  <1>3. s \in [Orgs -> [Users -> Role \cup {None}]]
    BY <1>1, <1>2
  <1>4. \A p \in Orgs, w \in Users : s[p][w] = IF p = o /\ w = u THEN v ELSE r[p][w]
    BY <1>2
  <1> HIDE DEF s
  <1>5. DBType(s, n, is)
    BY <1>3 DEF DBOK, DBType
  <1>6. Peopled(s, n)
    BY <1>4 DEF DBOK, Peopled
  <1>7. SoleOwners(s)
    BY <1>1, <1>4 DEF DBOK, SoleOwners
  <1>8. DBOK(s, n, is)
    BY <1>5, <1>6, <1>7 DEF DBOK
  <1> QED BY <1>8 DEF s

(* Ownership passes from one to another.                                   *)
LEMMA Transferred ==
    ASSUME NEW r, NEW n, NEW is, DBOK(r, n, is), NEW o \in Orgs, NEW u \in Users, NEW v \in Users,
           u # v, r[o][u] = "owner", r[o][v] # None
    PROVE  DBOK([r EXCEPT ![o] = [@ EXCEPT ![u] = "admin", ![v] = "owner"]], n, is)
  <1> DEFINE s == [r EXCEPT ![o] = [@ EXCEPT ![u] = "admin", ![v] = "owner"]]
  <1>1. r \in [Orgs -> [Users -> Role \cup {None}]] /\ {"admin", "owner"} \subseteq Role
    BY DEF DBOK, DBType, Role
  <1>2. s \in [Orgs -> [Users -> Role \cup {None}]]
    BY <1>1
  <1>3. \A p \in Orgs, w \in Users :
          s[p][w] = IF p # o THEN r[p][w] ELSE IF w = v THEN "owner" ELSE IF w = u THEN "admin" ELSE r[p][w]
    BY <1>1
  <1>4. n[o] # None
    BY DEF DBOK, Peopled
  <1> HIDE DEF s
  <1>5. DBType(s, n, is)
    BY <1>2 DEF DBOK, DBType
  <1>6. Peopled(s, n)
    BY <1>3, <1>4 DEF DBOK, Peopled
  <1>7. SoleOwners(s)
    BY <1>3 DEF DBOK, SoleOwners
  <1>8. DBOK(s, n, is)
    BY <1>5, <1>6, <1>7 DEF DBOK
  <1> QED BY <1>8 DEF s

(* An Invitation goes, or an entry of the table is no Invitation.          *)
LEMMA Revoked ==
    ASSUME NEW r, NEW n, NEW is, DBOK(r, n, is), NEW i
    PROVE  /\ DBOK(r, n, [is EXCEPT ![i] = None])
           /\ Len([is EXCEPT ![i] = None]) = Len(is)
  <1> DEFINE js == [is EXCEPT ![i] = None]
  <1>1. Len(is) \in Nat /\ is \in [1 .. Len(is) -> Invitation \cup {None}] /\ DOMAIN is = 1 .. Len(is)
    BY LenProperties DEF DBOK, DBType
  <1>2. js \in [1 .. Len(is) -> Invitation \cup {None}]
    BY <1>1
  <1>3. js \in Seq(Invitation \cup {None}) /\ Len(js) = Len(is)
    BY <1>1, <1>2, FunctionIsSeq
  <1>4. Invited(n, js)
    BY <1>1 DEF DBOK, Invited
  <1> HIDE DEF js
  <1>5. DBOK(r, n, js)
    BY <1>3, <1>4 DEF DBOK, DBType
  <1> QED BY <1>3, <1>5 DEF js

(* An Invitation to an Organization there is.                              *)
LEMMA Offered ==
    ASSUME NEW r, NEW n, NEW is, DBOK(r, n, is), NEW e \in Invitation, n[e.org] # None
    PROVE  DBOK(r, n, Append(is, e)) /\ Len(Append(is, e)) = Len(is) + 1
  <1> DEFINE js == Append(is, e)
  <1>1. is \in Seq(Invitation \cup {None}) /\ e \in Invitation \cup {None}
    BY DEF DBOK, DBType
  <1>2. Len(is) \in Nat /\ DOMAIN is = 1 .. Len(is)
    BY <1>1, LenProperties
  <1>3. /\ js \in Seq(Invitation \cup {None}) /\ Len(js) = Len(is) + 1
        /\ \A i \in 1 .. Len(is) : js[i] = is[i]
        /\ js[Len(is) + 1] = e
    BY <1>1, AppendProperties
  <1>4. DOMAIN js = 1 .. Len(is) + 1
    BY <1>3, LenProperties
  <1> HIDE DEF js
  <1>5. Invited(n, js)
    <2> SUFFICES ASSUME NEW i \in 1 .. Len(is) + 1, js[i] # None PROVE n[js[i].org] # None
      BY <1>4 DEF Invited
    <2>1. CASE i = Len(is) + 1
      BY <1>3, <2>1
    <2>2. CASE i # Len(is) + 1
      <3>1. i \in DOMAIN is /\ js[i] = is[i]
        BY <1>2, <1>3, <2>2
      <3> QED BY <3>1 DEF DBOK, Invited
    <2> QED BY <2>1, <2>2
  <1>6. DBOK(r, n, js)
    BY <1>3, <1>5 DEF DBOK, DBType
  <1> QED BY <1>3, <1>6 DEF js

\* What an outcome leaves is right, and no number of an Invitation is used twice.
Right(o) == DBOK(o.role, o.title, o.invites) /\ Len(invites) <= Len(o.invites)

LEMMA RightIs ==
    ASSUME NEW ok, NEW r, NEW n, NEW us, NEW is, DBOK(r, n, is), Len(invites) <= Len(is)
    PROVE  Right(As(ok, r, n, us, is))
  BY DEF Right, As

LEMMA SameRight ==
    ASSUME DBOK(role, title, invites)
    PROVE  /\ Right(Stays) /\ Right(Roles(role)) /\ Len(invites) \in Nat
           /\ \A r : DBOK(r, title, invites) => Right(Roles(r))
  <1>1. Len(invites) \in Nat
    BY LenProperties DEF DBOK, DBType
  <1>2. Len(invites) <= Len(invites)
    BY <1>1
  <1> QED BY <1>1, <1>2, RightIs DEF Stays, Roles

(* A write of nothing, where there is no such Membership.                  *)
LEMMA NoSuchRow ==
    ASSUME DBOK(role, title, invites), NEW o, NEW u, NEW v, ~(o \in Orgs /\ u \in Users)
    PROVE  [role EXCEPT ![o][u] = v] = role
  <1>1. role \in [Orgs -> [Users -> Role \cup {None}]]
    BY DEF DBOK, DBType
  <1>2. CASE o \notin Orgs
    BY <1>1, <1>2
  <1>3. CASE o \in Orgs /\ u \notin Users
    <2>1. role[o] \in [Users -> Role \cup {None}]
      BY <1>1, <1>3
    <2>2. [role[o] EXCEPT ![u] = v] = role[o]
      BY <1>3, <2>1
    <2>3. [role EXCEPT ![o][u] = v] = [role EXCEPT ![o] = [role[o] EXCEPT ![u] = v]]
      OBVIOUS
    <2>4. [role EXCEPT ![o] = role[o]] = role
      BY <1>1
    <2> QED BY <2>2, <2>3, <2>4
  <1> QED BY <1>2, <1>3

LEMMA MembershipOutcome ==
    ASSUME DBOK(role, title, invites), NEW a, Sane(a, Len(invites)),
           a.op \in {"setRole", "remove", "transfer"}
    PROVE  Right(Outcome(a))
  <1>1. CASE a.op = "setRole"
    <2>1. Outcome(a) = set_role(a) /\ a.with \in AssignableRole
      BY <1>1 DEF Outcome, Sane
    <2>2. CASE a.with # a.seen /\ Member(a.org, a.about)
      <3>1. a.org \in Orgs /\ a.about \in Users /\ title[a.org] # None
        BY <2>2 DEF Member, DBOK, Peopled
      <3>2. DBOK([role EXCEPT ![a.org][a.about] = a.with], title, invites)
        BY <2>1, <3>1, RoleWritten
      <3> QED BY <2>1, <2>2, <3>2, SameRight DEF set_role
    <2> QED BY <2>1, <2>2, SameRight DEF set_role
  <1>2. CASE a.op = "remove"
    <2>1. Outcome(a) = Roles([role EXCEPT ![a.org][a.about] = None])
      BY <1>2 DEF Outcome, remove
    <2>2. DBOK([role EXCEPT ![a.org][a.about] = None], title, invites)
      <3>1. CASE a.org \in Orgs /\ a.about \in Users
        BY <3>1, RoleWritten
      <3>2. CASE ~(a.org \in Orgs /\ a.about \in Users)
        <4> DEFINE r == [role EXCEPT ![a.org][a.about] = None]
        <4>1. r = role
          BY <3>2, NoSuchRow
        <4> HIDE DEF r
        <4>2. DBOK(r, title, invites)
          BY <4>1
        <4> QED BY <4>2 DEF r
      <3> QED BY <3>1, <3>2
    <2> QED BY <2>1, <2>2, SameRight
  <1>3. CASE a.op = "transfer"
    <2>1. Outcome(a) = transfer_ownership(a)
      BY <1>3 DEF Outcome
    <2>2. CASE Owner(a.org, a.by) /\ a.about # a.by /\ Member(a.org, a.about)
      <3>1. /\ a.org \in Orgs /\ a.about \in Users /\ a.by \in Users
            /\ role[a.org][a.by] = "owner" /\ role[a.org][a.about] # None
        BY <2>2 DEF Owner, Member
      <3>2. DBOK([role EXCEPT ![a.org] = [@ EXCEPT ![a.by] = "admin", ![a.about] = "owner"]],
                 title, invites)
        BY <2>2, <3>1, Transferred
      <3> QED BY <2>1, <2>2, <3>2, SameRight DEF transfer_ownership
    <2> QED BY <2>1, <2>2, SameRight DEF transfer_ownership
  <1> QED BY <1>1, <1>2, <1>3

LEMMA OrganizationOutcome ==
    ASSUME DBOK(role, title, invites), NEW a, Sane(a, Len(invites)), a.stage = "go",
           a.op \in {"rename", "end"}
    PROVE  Right(Outcome(a))
  <1>0. /\ a.org \in Orgs
        /\ role \in [Orgs -> [Users -> Role \cup {None}]]
        /\ title \in [Orgs -> Titles \cup {None}]
        /\ invites \in Seq(Invitation \cup {None})
    BY DEF Sane, OrgOps, Managing, Owning, DBOK, DBType
  <1>1. CASE a.op = "rename"
    <2> DEFINE n == [title EXCEPT ![a.org] = a.with]
    <2>1. a.with \in Titles
      BY <1>1 DEF Sane
    <2>2. CASE title[a.org] # None
      <3>1. n \in [Orgs -> Titles \cup {None}] /\ \A o \in Orgs : n[o] = None => title[o] = None
        BY <1>0, <2>1, NoneIsNone
      <3>2. \A o \in Orgs : title[o] # None => n[o] # None
        BY <1>0, <2>1, NoneIsNone
      <3>3. \A i \in DOMAIN invites : invites[i] # None => invites[i].org \in Orgs
        BY <1>0, LenProperties, ElementOfSeq DEF Invitation
      <3>4. As(TRUE, role, n, users, invites) = Outcome(a)
        BY <1>1, <2>2 DEF Outcome, rename_organization
      <3> HIDE DEF n
      <3>5. Peopled(role, n) /\ Invited(n, invites)
        BY <3>1, <3>2, <3>3 DEF DBOK, Peopled, Invited
      <3>6. DBOK(role, n, invites)
        BY <3>1, <3>5 DEF DBOK, DBType
      <3>7. Len(invites) <= Len(invites)
        BY <1>0, LenProperties
      <3> QED BY <3>4, <3>6, <3>7, RightIs
    <2>3. CASE title[a.org] = None
      BY <1>1, <2>3, SameRight DEF Outcome, rename_organization
    <2> QED BY <2>2, <2>3
  <1>2. CASE a.op = "end"
    <2> DEFINE nobody == [u \in Users |-> None]
               r == [role EXCEPT ![a.org] = nobody]
               n == [title EXCEPT ![a.org] = None]
               is == [i \in DOMAIN invites |->
                        IF invites[i] # None /\ invites[i].org = a.org THEN None ELSE invites[i]]
    <2>1. Outcome(a) = As(TRUE, r, n, users, is)
      BY <1>2 DEF Outcome, end_organization
    <2>2. nobody \in [Users -> Role \cup {None}] /\ \A u \in Users : nobody[u] = None
      OBVIOUS
    <2> HIDE DEF nobody
    <2>3. /\ r \in [Orgs -> [Users -> Role \cup {None}]]
          /\ \A o \in Orgs : r[o] = IF o = a.org THEN nobody ELSE role[o]
          /\ n \in [Orgs -> Titles \cup {None}]
          /\ \A o \in Orgs : n[o] = IF o = a.org THEN None ELSE title[o]
      BY <1>0, <2>2
    <2>4. /\ Len(invites) \in Nat /\ DOMAIN invites = 1 .. Len(invites)
          /\ \A i \in DOMAIN invites : invites[i] \in Invitation \cup {None}
      BY <1>0, LenProperties, ElementOfSeq
    <2>5. is \in [1 .. Len(invites) -> Invitation \cup {None}] /\ DOMAIN is = DOMAIN invites
      BY <2>4
    <2>6. is \in Seq(Invitation \cup {None}) /\ Len(is) = Len(invites)
      BY <2>4, <2>5, FunctionIsSeq
    <2>7. \A i \in DOMAIN is : is[i] # None => /\ is[i] = invites[i] /\ invites[i] # None
                                               /\ invites[i].org \in Orgs /\ invites[i].org # a.org
      BY <2>4, <2>5 DEF Invitation
    <2> HIDE DEF r, n, is
    <2>8. Peopled(r, n)
      BY <2>2, <2>3 DEF DBOK, Peopled
    <2>9. Invited(n, is)
      BY <2>3, <2>5, <2>7 DEF DBOK, Invited
    <2>10. SoleOwners(r)
      BY <2>2, <2>3, NoneIsNone DEF DBOK, SoleOwners
    <2>11. DBOK(r, n, is)
      BY <2>3, <2>6, <2>8, <2>9, <2>10 DEF DBOK, DBType
    <2>12. Len(invites) <= Len(is)
      BY <2>4, <2>6
    <2> QED BY <2>1, <2>11, <2>12, RightIs
  <1> QED BY <1>1, <1>2

LEMMA InvitationOutcome ==
    ASSUME DBOK(role, title, invites), NEW a, Sane(a, Len(invites)), a.stage = "go",
           a.op \in {"invite", "revoke", "accept"}
    PROVE  Right(Outcome(a))
  <1>0. /\ Len(invites) \in Nat /\ DOMAIN invites = 1 .. Len(invites)
        /\ \A i \in DOMAIN invites : invites[i] \in Invitation \cup {None}
    BY LenProperties, ElementOfSeq DEF DBOK, DBType
  <1>1. CASE a.op = "invite"
    <2> DEFINE e == [org |-> a.org, to |-> a.about, role |-> a.with, stands |-> TRUE]
    <2>1. e \in Invitation /\ e.org = a.org
      BY <1>1 DEF Sane, OrgOps, Managing, Invitation
    <2>2. CASE title[a.org] # None
      <3>1. Outcome(a) = As(TRUE, role, title, users, Append(invites, e))
        BY <1>1, <2>2 DEF Outcome, offer
      <3> HIDE DEF e
      <3>2. DBOK(role, title, Append(invites, e)) /\ Len(Append(invites, e)) = Len(invites) + 1
        BY <2>1, <2>2, Offered
      <3>3. Len(invites) <= Len(Append(invites, e))
        BY <1>0, <3>2
      <3> QED BY <3>1, <3>2, <3>3, RightIs
    <2>3. CASE title[a.org] = None
      BY <1>1, <2>3, SameRight DEF Outcome, offer
    <2> QED BY <2>2, <2>3
  <1> DEFINE is == [invites EXCEPT ![a.about] = None]
  <1>2. DBOK(role, title, is) /\ Len(is) = Len(invites) /\ Len(invites) <= Len(is)
    <2>1. DBOK(role, title, is) /\ Len(is) = Len(invites)
      BY Revoked
    <2> HIDE DEF is
    <2> QED BY <1>0, <2>1
  <1>3. CASE a.op = "revoke"
    <2>1. Outcome(a) = As(TRUE, role, title, users, is)
      BY <1>3 DEF Outcome, revoke
    <2> HIDE DEF is
    <2> QED BY <1>2, <2>1, RightIs
  <1>4. CASE a.op = "accept"
    <2> DEFINE i == invites[a.about]
               r == [role EXCEPT ![i.org][a.by] = i.role]
    <2>1. Outcome(a) = accept(a) /\ a.about \in DOMAIN invites
      BY <1>0, <1>4 DEF Outcome, Sane
    <2>2. CASE i = None \/ a.by \notin users \/ i.to # a.by \/ ~i.stands
      BY <2>1, <2>2, SameRight DEF accept
    <2>3. CASE ~(i = None \/ a.by \notin users \/ i.to # a.by \/ ~i.stands)
      <3>1. i \in Invitation /\ i.to = a.by
        BY <1>0, <2>1, <2>3
      <3>2. i.org \in Orgs /\ a.by \in Users /\ i.role \in AssignableRole /\ title[i.org] # None
        BY <2>1, <2>3, <3>1 DEF Invitation, DBOK, Invited
      <3>3. DBOK(r, title, invites)
        BY <3>2, RoleWritten
      <3>4. Outcome(a) = As(TRUE, IF Member(i.org, a.by) THEN role ELSE r, title, users, is)
        BY <2>1, <2>3 DEF accept
      <3>5. DBOK(r, title, is)
        <4> HIDE DEF r
        <4> QED BY <3>3, Revoked
      <3>6. DBOK(IF Member(i.org, a.by) THEN role ELSE r, title, is)
        <4> HIDE DEF r, is, i
        <4> QED BY <1>2, <3>5
      <3> HIDE DEF r, is, i
      <3> QED BY <1>2, <3>4, <3>6, RightIs
    <2> QED BY <2>2, <2>3
  <1> QED BY <1>1, <1>3, <1>4

LEMMA AccountOutcome ==
    ASSUME DBOK(role, title, invites), NEW a, a.op = "delete"
    PROVE  Right(Outcome(a))
  <1> DEFINE r == [o \in Orgs |-> [role[o] EXCEPT ![a.by] = None]]
  <1>1. role \in [Orgs -> [Users -> Role \cup {None}]]
    BY DEF DBOK, DBType
  <1>2. r \in [Orgs -> [Users -> Role \cup {None}]]
    BY <1>1
  <1>3. \A o \in Orgs, u \in Users : r[o][u] = IF u = a.by THEN None ELSE role[o][u]
    BY <1>1
  <1>4. Outcome(a) = As(TRUE, r, title, users \ {a.by}, invites)
    BY DEF Outcome, end_account
  <1> HIDE DEF r
  <1>5. Peopled(r, title)
    BY <1>3 DEF DBOK, Peopled
  <1>6. SoleOwners(r)
    BY <1>3, NoneIsNone DEF DBOK, SoleOwners
  <1>7. DBOK(r, title, invites)
    BY <1>2, <1>5, <1>6 DEF DBOK, DBType
  <1>8. Len(invites) <= Len(invites)
    BY SameRight
  <1> QED BY <1>4, <1>7, <1>8, RightIs

(* Whatever a commit writes, with whatever it read before.                 *)
LEMMA OutcomeRight ==
    ASSUME DBOK(role, title, invites), NEW a, Sane(a, Len(invites)), a.stage = "go"
    PROVE  Right(Outcome(a))
  <1>1. CASE a.op \in {"setRole", "remove", "transfer"}
    BY <1>1, MembershipOutcome
  <1>2. CASE a.op \in {"rename", "end"}
    BY <1>2, OrganizationOutcome
  <1>3. CASE a.op \in {"invite", "revoke", "accept"}
    BY <1>3, InvitationOutcome
  <1>4. CASE a.op = "delete"
    BY <1>4, AccountOutcome
  <1>5. CASE a.op \notin {"setRole", "remove", "transfer", "rename", "end", "invite", "revoke",
                          "accept", "delete"}
    <2>1. Outcome(a) = Roles(role)
      BY <1>5 DEF Outcome
    <2> QED BY <2>1, SameRight
  <1> QED BY <1>1, <1>2, <1>3, <1>4, <1>5

-----------------------------------------------------------------------------
(* Steps.                                                                  *)

(* Some facts of the invariant the steps use.                              *)
LEMMA InvIs ==
    ASSUME Inv
    PROVE  /\ DBOK(role, title, invites) /\ stamp \in Nat /\ Len(invites) \in Nat
           /\ DOMAIN invites = 1 .. Len(invites)
           /\ TabFields \subseteq DOMAIN tab
           /\ MeOK(tab.me, cookie, Len(invites))
           /\ AsksOK(asks, Len(invites))
           /\ cookie \in Session \cup {None}
  BY LenProperties DEF Inv, DBOK, DBType, TabOK, TabFields

(* Nothing of the accounts changes, but codes, or who has an account.      *)
LEMMA StillStep ==
    ASSUME Inv, UNCHANGED <<role, title, invites, asks, cookie, tab, stamp>>
    PROVE  Inv'
  BY DEF Inv, TabOK

(* letGo, and what onUnauthorized makes of it.                             *)
LEMMA LetGoIs ==
    ASSUME NEW t, TabFields \subseteq DOMAIN t, NEW next, NEW c, NEW n
    PROVE  /\ TabFields \subseteq DOMAIN letGo(t, next)
           /\ letGo(t, next).email = t.email /\ ~letGo(t, next).sent
           /\ MeOK(letGo(t, next).me, c, n)
  <1> DEFINE u == [t EXCEPT !.me = Mount(Query), !.at = "signin", !.next = next, !.sent = FALSE, !.owed = 0]
  <1>1. DOMAIN u = DOMAIN t /\ u.email = t.email /\ u.sent = FALSE /\ u.me = Mount(Query)
    BY DEF TabFields
  <1>2. letGo(t, next) = OnScreen(u)
    BY DEF letGo
  <1> HIDE DEF u
  <1>3. Like(u, OnScreen(u))
    BY <1>1, OnScreenLike
  <1>4. MeOK(Mount(Query), c, n)
    BY EmptyOK
  <1> QED BY <1>1, <1>2, <1>3, <1>4 DEF Like

\* The tab u follows the tab t and is right for the session c.
Follows(t, u, c, n) ==
    /\ TabFields \subseteq DOMAIN u /\ u.email = t.email /\ (u.sent => t.sent)
    /\ MeOK(u.me, c, n)

LEMMA LetGoFollows ==
    ASSUME NEW t, TabFields \subseteq DOMAIN t, NEW next, NEW c, NEW n
    PROVE  Follows(t, letGo(t, next), c, n)
  BY LetGoIs DEF Follows

LEMMA UnauthorizedFollows ==
    ASSUME NEW t, NEW c, NEW n, Follows(t, t, c, n)
    PROVE  Follows(t, onUnauthorized(t), c, n)
  <1>1. onUnauthorized(t) = t \/ onUnauthorized(t) = letGo(t, t.at)
    BY DEF onUnauthorized
  <1>2. TabFields \subseteq DOMAIN t
    BY DEF Follows
  <1> QED BY <1>1, <1>2, LetGoFollows

LEMMA InvalidateMeFollows ==
    ASSUME NEW t, NEW c, NEW n, Follows(t, t, c, n)
    PROVE  Follows(t, InvalidateMe(t), c, n)
  <1> DEFINE u == [t EXCEPT !.me = Invalidate(@), !.owed = stamp]
  <1>1. TabFields \subseteq DOMAIN t
    BY DEF Follows
  <1>2. DOMAIN u = DOMAIN t /\ u.email = t.email /\ u.sent = t.sent /\ u.me = Invalidate(t.me)
    BY <1>1 DEF TabFields
  <1>3. InvalidateMe(t) = u
    BY DEF InvalidateMe
  <1> HIDE DEF u
  <1>4. MeOK(Invalidate(t.me), c, n)
    BY InvalidateOK DEF Follows
  <1> QED BY <1>1, <1>2, <1>3, <1>4 DEF Follows

LEMMA InvalidatePanelFollows ==
    ASSUME NEW t, NEW c, NEW n, Follows(t, t, c, n)
    PROVE  Follows(t, InvalidatePanel(t), c, n)
  <1> DEFINE u == [t EXCEPT !.panel = Invalidate(@)]
  <1>1. TabFields \subseteq DOMAIN t
    BY DEF Follows
  <1>2. DOMAIN u = DOMAIN t /\ u.email = t.email /\ u.sent = t.sent /\ u.me = t.me
    BY <1>1 DEF TabFields
  <1>3. InvalidatePanel(t) = u \/ InvalidatePanel(t) = t
    BY DEF InvalidatePanel
  <1> HIDE DEF u
  <1> QED BY <1>1, <1>2, <1>3 DEF Follows

LEMMA FollowsAgain ==
    ASSUME NEW t, NEW u, NEW v, NEW c, NEW n, Follows(t, u, c, n), Follows(u, v, c, n)
    PROVE  Follows(t, v, c, n)
  BY DEF Follows

LEMMA FollowsSelf ==
    ASSUME NEW t, NEW u, NEW c, NEW n, Follows(t, u, c, n)
    PROVE  Follows(u, u, c, n)
  BY DEF Follows

LEMMA GatedFollows ==
    ASSUME NEW t, NEW u, NEW c, NEW n, Follows(t, u, c, n)
    PROVE  Follows(t, Gated(u), c, n)
  <1>1. TabFields \subseteq DOMAIN u
    BY DEF Follows
  <1>2. Like(u, Gated(u))
    BY <1>1, GatedLike
  <1> QED BY <1>2 DEF Follows, Like

(* A step that only changes the tab.                                       *)
LEMMA TabStep ==
    ASSUME Inv, Follows(tab, tab', cookie, Len(invites)),
           UNCHANGED <<role, title, invites, asks, cookie, stamp>>
    PROVE  Inv'
  <1>1. TabOK'
    BY DEF Inv, TabOK, Follows, TabFields
  <1> QED BY <1>1 DEF Inv

LEMMA SelfFollows == ASSUME Inv PROVE Follows(tab, tab, cookie, Len(invites))
  BY InvIs DEF Follows

(* A step that only sends a request.                                       *)
LEMMA AskStep ==
    ASSUME Inv, NEW a, Sane(a, Len(invites)), asks' = Append(asks, a),
           UNCHANGED <<role, title, invites, cookie, tab, stamp>>
    PROVE  Inv'
  <1>1. AsksOK(asks', Len(invites))
    BY InvIs, AppendOK
  <1> QED BY <1>1 DEF Inv, TabOK

LEMMA AwayKeeps == ASSUME Inv, AwayRoles \/ AwayOffers \/ AwayEnds PROVE Inv'
  <1> DEFINE Sent(from, by, op, org, about, with) ==
               /\ asks' = Append(asks, Looked(Ask(from, by, op, org, about, with)))
               /\ op \in {"setRole", "invite"} => with \in AssignableRole
               /\ op = "invite" => about \in Users
               /\ op = "rename" => with \in Titles
               /\ op = "accept" => about \in 1 .. Len(invites)
  <1>1. UNCHANGED <<role, title, invites, cookie, tab, stamp>>
    BY DEF AwayRoles, AwayOffers, AwayEnds, Away, orgVars
  <1>2. \E from, by, op, org, about, with : Sent(from, by, op, org, about, with)
    <2>1. CASE AwayRoles
      <3>1. PICK a \in {Ask("away", u, "setRole", o, v, r) :
                          u \in users, o \in Orgs, v \in Users, r \in AssignableRole}
                   \cup {Ask("away", u, op, o, v, None) :
                          u \in users, op \in {"remove", "transfer"}, o \in Orgs, v \in Users} :
              asks' = Append(asks, Looked(a))
        BY <2>1 DEF AwayRoles, Away
      <3>2. CASE a \in {Ask("away", u, "setRole", o, v, r) :
                          u \in users, o \in Orgs, v \in Users, r \in AssignableRole}
        <4>1. PICK u \in users, o \in Orgs, v \in Users, r \in AssignableRole :
                a = Ask("away", u, "setRole", o, v, r)
          BY <3>2
        <4>2. Sent("away", u, "setRole", o, v, r)
          BY <3>1, <4>1
        <4> QED BY <4>2
      <3>3. CASE a \in {Ask("away", u, op, o, v, None) :
                          u \in users, op \in {"remove", "transfer"}, o \in Orgs, v \in Users}
        <4>1. PICK u \in users, op \in {"remove", "transfer"}, o \in Orgs, v \in Users :
                a = Ask("away", u, op, o, v, None)
          BY <3>3
        <4>2. Sent("away", u, op, o, v, None)
          BY <3>1, <4>1
        <4> QED BY <4>2
      <3> QED BY <3>2, <3>3
    <2>2. CASE AwayOffers
      <3>1. PICK a \in {Ask("away", u, "invite", o, v, r) :
                          u \in users, o \in Orgs, v \in Users, r \in AssignableRole}
                   \cup {Ask("away", u, "revoke", o, i, None) :
                          u \in users, o \in Orgs, i \in DOMAIN invites}
                   \cup {Ask("away", u, "accept", None, i, None) :
                          u \in users, i \in DOMAIN invites} :
              asks' = Append(asks, Looked(a))
        BY <2>2 DEF AwayOffers, Away
      <3>2. CASE a \in {Ask("away", u, "invite", o, v, r) :
                          u \in users, o \in Orgs, v \in Users, r \in AssignableRole}
        <4>1. PICK u \in users, o \in Orgs, v \in Users, r \in AssignableRole :
                a = Ask("away", u, "invite", o, v, r)
          BY <3>2
        <4>2. Sent("away", u, "invite", o, v, r)
          BY <3>1, <4>1
        <4> QED BY <4>2
      <3>3. CASE a \in {Ask("away", u, "revoke", o, i, None) :
                          u \in users, o \in Orgs, i \in DOMAIN invites}
        <4>1. PICK u \in users, o \in Orgs, i \in DOMAIN invites :
                a = Ask("away", u, "revoke", o, i, None)
          BY <3>3
        <4>2. Sent("away", u, "revoke", o, i, None)
          BY <3>1, <4>1
        <4> QED BY <4>2
      <3>4. CASE a \in {Ask("away", u, "accept", None, i, None) :
                          u \in users, i \in DOMAIN invites}
        <4>1. PICK u \in users, i \in DOMAIN invites : a = Ask("away", u, "accept", None, i, None)
          BY <3>4
        <4>2. Sent("away", u, "accept", None, i, None)
          BY <3>1, <4>1, InvIs
        <4> QED BY <4>2
      <3> QED BY <3>2, <3>3, <3>4
    <2>3. CASE AwayEnds
      <3>1. PICK a \in {Ask("away", u, "end", o, None, title[o]) : u \in users, o \in Orgs}
                   \cup {Ask("away", u, op, None, None, None) :
                          u \in users, op \in {"everywhere", "delete"}} :
              asks' = Append(asks, Looked(a))
        BY <2>3 DEF AwayEnds, Away
      <3>2. CASE a \in {Ask("away", u, "end", o, None, title[o]) : u \in users, o \in Orgs}
        <4>1. PICK u \in users, o \in Orgs : a = Ask("away", u, "end", o, None, title[o])
          BY <3>2
        <4>2. Sent("away", u, "end", o, None, title[o])
          BY <3>1, <4>1
        <4> QED BY <4>2
      <3>3. CASE a \in {Ask("away", u, op, None, None, None) :
                          u \in users, op \in {"everywhere", "delete"}}
        <4>1. PICK u \in users, op \in {"everywhere", "delete"} : a = Ask("away", u, op, None, None, None)
          BY <3>3
        <4>2. Sent("away", u, op, None, None, None)
          BY <3>1, <4>1
        <4> QED BY <4>2
      <3> QED BY <3>2, <3>3
    <2> QED BY <2>1, <2>2, <2>3
  <1>3. PICK from, by, op, org, about, with : Sent(from, by, op, org, about, with)
    BY <1>2
  <1> DEFINE a == Looked(Ask(from, by, op, org, about, with))
  <1>4. Sane(a, Len(invites)) /\ asks' = Append(asks, a)
    BY <1>3, LookedIs
  <1> HIDE DEF a
  <1> QED BY <1>1, <1>4, AskStep

(* A request of the tab.                                                   *)
LEMMA SendsKeeps ==
    ASSUME Inv, NEW kind, NEW op, NEW about, NEW with, Sends(kind, op, about, with),
           op \in {"setRole", "invite"} => with \in AssignableRole,
           op = "invite" => about \in Users,
           op = "rename" => with \in Titles,
           op = "accept" => about \in 1 .. Len(invites)
    PROVE  Inv'
  <1> DEFINE by == IF cookie = None THEN None ELSE cookie.user
             a == Looked(Ask("tab", by, op, activeOrganization(tab), about, with))
  <1>1. asks' = Append(asks, a) /\ UNCHANGED <<role, title, invites, cookie, tab, stamp>>
    BY DEF Sends, orgVars
  <1>2. Sane(a, Len(invites))
    BY LookedIs
  <1> HIDE DEF a
  <1> QED BY <1>1, <1>2, AskStep

LEMMA PagesKeep ==
    ASSUME Inv, MembersPage \/ GeneralPage \/ InvitationsPage \/ PendingInvitations \/ AccountPage \/ UserMenu
    PROVE  Inv'
  <1>1. CASE MembersPage
    <2>1. PICK e \in tab.panel.data :
            \/ \E r \in AssignableRole \ {e[2]} : Sends("manage", "setRole", e[1], r)
            \/ Sends("manage", "remove", e[1], None)
      BY <1>1 DEF MembersPage
    <2>2. CASE \E r \in AssignableRole \ {e[2]} : Sends("manage", "setRole", e[1], r)
      <3>1. PICK r \in AssignableRole : Sends("manage", "setRole", e[1], r)
        BY <2>2
      <3> QED BY <3>1, SendsKeeps
    <2>3. CASE Sends("manage", "remove", e[1], None)
      BY <2>3, SendsKeeps
    <2> QED BY <2>1, <2>2, <2>3
  <1>2. CASE GeneralPage
    <2>1. CASE NameCard
      <3>1. PICK n \in Titles : Sends("manage", "rename", None, n)
        BY <2>1 DEF NameCard
      <3> QED BY <3>1, SendsKeeps
    <2>2. CASE HandItOn
      <3>1. PICK e \in tab.panel.data : Sends("manage", "transfer", e[1], None)
        BY <2>2 DEF HandItOn
      <3> QED BY <3>1, SendsKeeps
    <2>3. CASE EndIt
      BY <2>3, SendsKeeps DEF EndIt
    <2> QED BY <1>2, <2>1, <2>2, <2>3 DEF GeneralPage
  <1>3. CASE InvitationsPage
    <2>1. CASE \E v \in Users, r \in AssignableRole : Sends("manage", "invite", v, r)
      BY <2>1, SendsKeeps
    <2>2. CASE \E i \in tab.panel.data : Sends("manage", "revoke", i, None)
      BY <2>2, SendsKeeps
    <2> QED BY <1>3, <2>1, <2>2 DEF InvitationsPage
  <1>4. CASE PendingInvitations
    <2>1. PICK i \in MeOf(tab).offers : Sends("manage", "accept", i, None)
      BY <1>4 DEF PendingInvitations
    <2>2. MeOf(tab).offers \subseteq 1 .. Len(invites)
      BY InvIs, SignedOutIs DEF MeOf, MeOK
    <2> QED BY <2>1, <2>2, SendsKeeps
  <1>5. CASE AccountPage
    <2>1. Sends("leave", "everywhere", None, None) \/ Sends("leave", "delete", None, None)
      BY <1>5 DEF AccountPage, EverySession, DangerZone
    <2> QED BY <2>1, SendsKeeps
  <1>6. CASE UserMenu
    BY <1>6, SendsKeeps DEF UserMenu
  <1> QED BY <1>1, <1>2, <1>3, <1>4, <1>5, <1>6

(* Where the person looks.                                                 *)
LEMMA LooksKeep ==
    ASSUME Inv, Navigate \/ LookAgain \/ ChooseOrganization
    PROVE  Inv'
  <1>0. TabFields \subseteq DOMAIN tab /\ MeOK(tab.me, cookie, Len(invites))
    BY InvIs
  <1>1. \E t : Goes(t) /\ Follows(tab, t, cookie, Len(invites))
    <2>1. CASE Navigate
      <3>1. PICK s \in Section : Goes([tab EXCEPT !.at = s])
        BY <2>1 DEF Navigate
      <3> DEFINE t == [tab EXCEPT !.at = s]
      <3>2. DOMAIN t = DOMAIN tab /\ t.email = tab.email /\ t.sent = tab.sent /\ t.me = tab.me
        BY <1>0 DEF TabFields
      <3> HIDE DEF t
      <3>3. Follows(tab, t, cookie, Len(invites))
        BY <1>0, <3>2 DEF Follows
      <3> QED BY <3>1, <3>3 DEF t
    <2>2. CASE LookAgain
      <3> DEFINE T(stale) == [tab EXCEPT !.me = IF stale THEN Mount(@) ELSE @,
                                         !.panel = IF tab.key # None THEN Mount(@) ELSE @]
      <3>1. PICK stale \in BOOLEAN : Goes(T(stale))
        BY <2>2 DEF LookAgain
      <3> DEFINE t == T(stale)
      <3>2. /\ DOMAIN t = DOMAIN tab /\ t.email = tab.email /\ t.sent = tab.sent
            /\ t.me = IF stale THEN Mount(tab.me) ELSE tab.me
        BY <1>0 DEF TabFields
      <3> HIDE DEF t
      <3>3. Follows(tab, t, cookie, Len(invites))
        BY <1>0, <3>2, MountOK DEF Follows
      <3> QED BY <3>1, <3>3 DEF t
    <2>3. CASE ChooseOrganization
      <3>1. PICK o \in Orgs : Goes(InvalidatePanel(InvalidateMe([tab EXCEPT !.choice = o])))
        BY <2>3 DEF ChooseOrganization
      <3> DEFINE t == [tab EXCEPT !.choice = o]
                 u == InvalidateMe(t)
                 v == InvalidatePanel(u)
      <3>2. DOMAIN t = DOMAIN tab /\ t.email = tab.email /\ t.sent = tab.sent /\ t.me = tab.me
        BY <1>0 DEF TabFields
      <3> HIDE DEF t
      <3>3. Follows(tab, t, cookie, Len(invites))
        BY <1>0, <3>2 DEF Follows
      <3>4. Follows(t, u, cookie, Len(invites))
        BY <3>3, FollowsSelf, InvalidateMeFollows
      <3> HIDE DEF u
      <3>5. Follows(u, v, cookie, Len(invites))
        BY <3>4, FollowsSelf, InvalidatePanelFollows
      <3> HIDE DEF v
      <3>6. Follows(tab, v, cookie, Len(invites))
        BY <3>3, <3>4, <3>5, FollowsAgain
      <3> QED BY <3>1, <3>6 DEF t, u, v
    <2> QED BY <2>1, <2>2, <2>3
  <1>2. PICK t : Goes(t) /\ Follows(tab, t, cookie, Len(invites))
    BY <1>1
  <1>3. tab' = Gated(t) /\ UNCHANGED <<role, title, invites, asks, cookie, stamp>>
    BY <1>2 DEF Goes, orgVars
  <1>4. Follows(tab, tab', cookie, Len(invites))
    BY <1>2, <1>3, GatedFollows
  <1> QED BY <1>3, <1>4, TabStep

-----------------------------------------------------------------------------
(* Answers to the tab's queries.                                           *)

LEMMA AccountOf ==
    ASSUME Inv, NEW u \in Users
    PROVE  /\ account_of(u) \in Identity /\ account_of(u).user = u
           /\ account_of(u).offers \subseteq 1 .. Len(invites)
  <1>1. pending_for(u) \subseteq 1 .. Len(invites) /\ 1 .. Len(invites) \subseteq Nat
    BY InvIs DEF pending_for
  <1>2. [o \in Orgs |-> role[o][u]] \in [Orgs -> Role \cup {None}]
    BY DEF Inv, DBOK, DBType
  <1>3. title \in [Orgs -> Titles \cup {None}] /\ stamp \in Nat
    BY DEF Inv, DBOK, DBType
  <1> DEFINE p == pending_for(u)
             r == [o \in Orgs |-> role[o][u]]
  <1>4. account_of(u) = [user |-> u, role |-> r, title |-> title, offers |-> p, stamp |-> stamp]
    BY DEF account_of
  <1>5. p \in SUBSET Nat
    BY <1>1
  <1> HIDE DEF p, r
  <1>6. account_of(u) \in Identity /\ account_of(u).user = u /\ account_of(u).offers = p
    BY <1>2, <1>3, <1>4, <1>5 DEF Identity, r
  <1> QED BY <1>1, <1>6 DEF p

LEMMA ReadMeKeeps == ASSUME Inv, getCurrentAccount PROVE Inv'
  <1> DEFINE d == IF SessionLives THEN account_of(cookie.user) ELSE SignedOut
             t == [tab EXCEPT !.me = Read(@, d)]
  <1>0. TabFields \subseteq DOMAIN tab /\ MeOK(tab.me, cookie, Len(invites))
    BY InvIs
  <1>1. d \in Identity /\ Of(d, cookie) /\ d.offers \subseteq 1 .. Len(invites)
    <2>1. CASE SessionLives
      <3>1. cookie # None /\ cookie.user \in Users
        BY <2>1 DEF SessionLives, Inv, Session
      <3> QED BY <2>1, <3>1, AccountOf DEF Of
    <2>2. CASE ~SessionLives
      BY <2>2, SignedOutIs DEF Of
    <2> QED BY <2>1, <2>2
  <1>2. tab' = t /\ UNCHANGED <<role, title, invites, asks, cookie, stamp>>
    BY DEF getCurrentAccount, orgVars
  <1> HIDE DEF d
  <1>3. DOMAIN t = DOMAIN tab /\ t.email = tab.email /\ t.sent = tab.sent /\ t.me = Read(tab.me, d)
    BY <1>0 DEF TabFields
  <1>4. MeOK(Read(tab.me, d), cookie, Len(invites))
    BY <1>0, <1>1, ReadOK
  <1> HIDE DEF t
  <1>5. Follows(tab, tab', cookie, Len(invites))
    BY <1>0, <1>2, <1>3, <1>4 DEF Follows
  <1> QED BY <1>2, <1>5, TabStep

LEMMA MeArrivesKeeps == ASSUME Inv, MeArrives PROVE Inv'
  <1>0. TabFields \subseteq DOMAIN tab /\ MeOK(tab.me, cookie, Len(invites))
    BY InvIs
  <1>1. UNCHANGED <<role, title, invites, asks, cookie, stamp>>
    BY DEF MeArrives, orgVars
  <1> DEFINE t == [tab EXCEPT !.me = Arrive(@)]
             u == [tab EXCEPT !.me = [Query EXCEPT !.data = SignedOut]]
  <1>2. CASE tab' = onUnauthorized(tab)
    BY <1>1, <1>2, SelfFollows, UnauthorizedFollows, TabStep
  <1>3. CASE tab.me.fetch # None /\ tab.me.fetch.read /\ tab' = Gated(t)
    <2>1. DOMAIN t = DOMAIN tab /\ t.email = tab.email /\ t.sent = tab.sent /\ t.me = Arrive(tab.me)
      BY <1>0 DEF TabFields
    <2>2. MeOK(Arrive(tab.me), cookie, Len(invites))
      BY <1>0, <1>3, ArriveOK
    <2> HIDE DEF t
    <2>3. Follows(tab, t, cookie, Len(invites))
      BY <1>0, <2>1, <2>2 DEF Follows
    <2> QED BY <1>1, <1>3, <2>3, GatedFollows, TabStep
  <1>4. CASE tab' = Gated(u)
    <2>1. /\ DOMAIN u = DOMAIN tab /\ u.email = tab.email /\ u.sent = tab.sent
          /\ u.me = [Query EXCEPT !.data = SignedOut]
      BY <1>0 DEF TabFields
    <2>2. MeOK([Query EXCEPT !.data = SignedOut], cookie, Len(invites))
      BY NullOK
    <2> HIDE DEF u
    <2>3. Follows(tab, u, cookie, Len(invites))
      BY <1>0, <2>1, <2>2 DEF Follows
    <2> QED BY <1>1, <1>4, <2>3, GatedFollows, TabStep
  <1> QED BY <1>2, <1>3, <1>4 DEF MeArrives

(* A list on the screen.                                                   *)
LEMMA PanelFollows ==
    ASSUME Inv, NEW p
    PROVE  Follows(tab, [tab EXCEPT !.panel = p], cookie, Len(invites))
  <1> DEFINE t == [tab EXCEPT !.panel = p]
  <1>0. TabFields \subseteq DOMAIN tab /\ MeOK(tab.me, cookie, Len(invites))
    BY InvIs
  <1>1. DOMAIN t = DOMAIN tab /\ t.email = tab.email /\ t.sent = tab.sent /\ t.me = tab.me
    BY <1>0 DEF TabFields
  <1> HIDE DEF t
  <1>2. Follows(tab, t, cookie, Len(invites))
    BY <1>0, <1>1 DEF Follows
  <1> QED BY <1>2 DEF t

LEMMA ReadPanelKeeps == ASSUME Inv, readPanel PROVE Inv'
  <1>1. PICK p : tab' = [tab EXCEPT !.panel = p]
    BY DEF readPanel
  <1>2. UNCHANGED <<role, title, invites, asks, cookie, stamp>>
    BY DEF readPanel, orgVars
  <1> QED BY <1>1, <1>2, PanelFollows, TabStep

LEMMA LapsedFollows ==
    ASSUME NEW t, NEW c, NEW n, Follows(t, t, c, n)
    PROVE  Follows(t, onLapsed(t), c, n)
  <1> DEFINE u == [t EXCEPT !.choice = None]
             v == InvalidateMe(u)
  <1>0. TabFields \subseteq DOMAIN t
    BY DEF Follows
  <1>1. DOMAIN u = DOMAIN t /\ u.email = t.email /\ u.sent = t.sent /\ u.me = t.me
    BY <1>0 DEF TabFields
  <1> HIDE DEF u
  <1>2. Follows(t, u, c, n)
    BY <1>0, <1>1 DEF Follows
  <1>3. Follows(u, v, c, n)
    BY <1>2, FollowsSelf, InvalidateMeFollows
  <1> HIDE DEF v
  <1>4. Follows(v, InvalidatePanel(v), c, n)
    BY <1>3, FollowsSelf, InvalidatePanelFollows
  <1>5. onLapsed(t) = InvalidatePanel(v)
    BY DEF onLapsed, u, v
  <1> QED BY <1>2, <1>3, <1>4, <1>5, FollowsAgain

LEMMA PanelArrivesKeeps == ASSUME Inv, PanelArrives PROVE Inv'
  <1> DEFINE is == tab.panel.fetch.got.is
             p == [Query EXCEPT !.data = tab.panel.fetch.got.rows]
             listed == [tab EXCEPT !.panel = p]
             asked == [listed EXCEPT !.me = Invalidate(@), !.choice = None, !.owed = stamp]
             failed == [tab EXCEPT !.panel = [Query EXCEPT !.data = {}]]
  <1>1. UNCHANGED <<role, title, invites, asks, cookie, stamp>>
    BY DEF PanelArrives, orgVars
  <1>2. tab' \in {onUnauthorized(tab), Gated(asked), Gated(onLapsed(tab)), listed, failed}
    <2>1. CASE tab' = failed
      BY <2>1
    <2>2. CASE tab' # failed
      <3>1. tab' = CASE is = "unauthorized" -> onUnauthorized(tab)
                     [] is = "lapsed" /\ tab.panel.data = None -> Gated(asked)
                     [] is = "lapsed" /\ tab.panel.data # None -> Gated(onLapsed(tab))
                     [] OTHER -> listed
        BY <2>2 DEF PanelArrives
      <3> HIDE DEF is, listed, asked, failed
      <3> QED BY <3>1
    <2> QED BY <2>1, <2>2
  <1>3. Follows(tab, listed, cookie, Len(invites)) /\ Follows(tab, failed, cookie, Len(invites))
    BY PanelFollows
  <1>4. Follows(tab, asked, cookie, Len(invites))
    <2> HIDE DEF listed
    <2>1. TabFields \subseteq DOMAIN listed /\ MeOK(Invalidate(listed.me), cookie, Len(invites))
      BY <1>3, InvalidateOK DEF Follows
    <2>2. /\ DOMAIN asked = DOMAIN listed /\ asked.email = listed.email /\ asked.sent = listed.sent
          /\ asked.me = Invalidate(listed.me)
      BY <2>1 DEF TabFields
    <2> HIDE DEF asked
    <2> QED BY <1>3, <2>1, <2>2 DEF Follows
  <1>5. /\ Follows(tab, onUnauthorized(tab), cookie, Len(invites))
        /\ Follows(tab, onLapsed(tab), cookie, Len(invites))
    BY SelfFollows, UnauthorizedFollows, LapsedFollows
  <1> HIDE DEF is, listed, asked, failed
  <1>6. Follows(tab, tab', cookie, Len(invites))
    BY <1>2, <1>3, <1>4, <1>5, GatedFollows
  <1> QED BY <1>1, <1>6, TabStep

-----------------------------------------------------------------------------
(* Sign-in, time, commits and their answers.                               *)

LEMMA Stepped ==
    ASSUME Inv, DBOK(role, title, invites)', stamp' \in Nat, AsksOK(asks, Len(invites))',
           cookie' \in Session \cup {None}, Follows(tab, tab', cookie', Len(invites'))
    PROVE  Inv'
  <1>1. TabOK'
    BY DEF Inv, TabOK, Follows, TabFields
  <1> QED BY <1>1 DEF Inv

LEMMA CodeKeeps == ASSUME Inv, askForCode \/ UseADifferentEmail PROVE Inv'
  <1>0. TabFields \subseteq DOMAIN tab /\ MeOK(tab.me, cookie, Len(invites))
    BY InvIs
  <1>1. UNCHANGED <<role, title, invites, asks, cookie, stamp>>
    BY DEF askForCode, UseADifferentEmail, orgVars
  <1>2. CASE UseADifferentEmail
    <2> DEFINE t == [tab EXCEPT !.sent = FALSE]
    <2>1. DOMAIN t = DOMAIN tab /\ t.email = tab.email /\ t.sent = FALSE /\ t.me = tab.me
      BY <1>0 DEF TabFields
    <2>2. tab' = t
      BY <1>2 DEF UseADifferentEmail
    <2> HIDE DEF t
    <2>3. Follows(tab, tab', cookie, Len(invites))
      BY <1>0, <2>1, <2>2 DEF Follows
    <2> QED BY <1>1, <2>3, TabStep
  <1>3. CASE askForCode
    <2>1. PICK u \in (IF tab.sent THEN {tab.email} ELSE Users) : request_code(u)
      BY <1>3 DEF askForCode
    <2>2. u \in Users
      BY <2>1 DEF Inv, TabOK
    <2>3. CASE tab' = tab
      BY <1>1, <2>3, StillStep
    <2>4. CASE tab' # tab
      <3> DEFINE t == [tab EXCEPT !.email = u, !.sent = TRUE]
      <3>1. DOMAIN t = DOMAIN tab /\ t.email = u /\ t.sent = TRUE /\ t.me = tab.me
        BY <1>0 DEF TabFields
      <3>2. tab' = t
        BY <2>1, <2>4 DEF request_code
      <3> HIDE DEF t
      <3>3. TabOK'
        BY <1>0, <1>1, <2>2, <3>1, <3>2 DEF TabOK, TabFields
      <3> QED BY <1>1, <3>3 DEF Inv
    <2> QED BY <2>3, <2>4
  <1> QED BY <1>2, <1>3

(* A new Organization is one nobody is in.                                 *)
LEMMA Founded ==
    ASSUME DBOK(role, title, invites), NEW o \in Orgs, NEW u \in Users, title[o] = None
    PROVE  DBOK([role EXCEPT ![o][u] = "owner"], [title EXCEPT ![o] = "n1"], invites)
  <1> DEFINE r == [role EXCEPT ![o][u] = "owner"]
             n == [title EXCEPT ![o] = "n1"]
  <1>1. /\ role \in [Orgs -> [Users -> Role \cup {None}]]
        /\ title \in [Orgs -> Titles \cup {None}]
        /\ invites \in Seq(Invitation \cup {None})
        /\ \A v \in Users : role[o][v] = None
    BY DEF DBOK, DBType, Peopled
  <1>2. "owner" \in Role /\ "n1" \in Titles /\ "n1" # None
    BY NoneIsNone DEF Role, Titles
  <1>3. /\ r \in [Orgs -> [Users -> Role \cup {None}]]
        /\ n \in [Orgs -> Titles \cup {None}]
    BY <1>1, <1>2
  <1>4. \A p \in Orgs, v \in Users : r[p][v] = IF p = o /\ v = u THEN "owner" ELSE role[p][v]
    BY <1>1
  <1>5. \A p \in Orgs : n[p] = IF p = o THEN "n1" ELSE title[p]
    BY <1>1
  <1>6. \A i \in DOMAIN invites : invites[i] # None => invites[i].org \in Orgs
    BY <1>1, LenProperties, ElementOfSeq DEF Invitation
  <1> HIDE DEF r, n
  <1>7. Peopled(r, n)
    BY <1>2, <1>4, <1>5 DEF DBOK, Peopled
  <1>8. Invited(n, invites)
    BY <1>2, <1>5, <1>6 DEF DBOK, Invited
  <1>9. SoleOwners(r)
    BY <1>1, <1>4, NoneIsNone DEF DBOK, SoleOwners
  <1>10. DBOK(r, n, invites)
    BY <1>1, <1>3, <1>7, <1>8, <1>9 DEF DBOK, DBType
  <1> QED BY <1>10 DEF r, n

LEMMA SignInKeeps == ASSUME Inv, signIn PROVE Inv'
  <1> DEFINE u == tab.email
  <1>0. TabFields \subseteq DOMAIN tab /\ MeOK(tab.me, cookie, Len(invites)) /\ stamp + 1 \in Nat
    BY InvIs
  <1>1. u \in Users /\ tab.me.data # None /\ UNCHANGED <<invites, asks>>
    BY DEF signIn, AtSignIn, Inv, TabOK
  <1>2. \/ /\ Accepted(u)
           /\ \/ /\ cookie' = [user |-> u, live |-> TRUE]
                 /\ tab' = [tab EXCEPT !.me = Invalidate(@), !.owed = stamp']
              \/ UNCHANGED <<cookie, tab>>
        \/ UNCHANGED <<role, title, cookie, tab, stamp>>
    BY DEF signIn
  <1>3. CASE UNCHANGED <<role, title, cookie, tab, stamp>>
    BY <1>1, <1>3, StillStep
  <1>4. CASE /\ Accepted(u)
             /\ \/ /\ cookie' = [user |-> u, live |-> TRUE]
                   /\ tab' = [tab EXCEPT !.me = Invalidate(@), !.owed = stamp']
                \/ UNCHANGED <<cookie, tab>>
    <2>1. stamp' \in Nat
      BY <1>0, <1>4 DEF Accepted
    <2>2. DBOK(role, title, invites)'
      <3>1. CASE UNCHANGED <<role, title>>
        BY <1>1, <3>1, InvIs
      <3>2. CASE ~UNCHANGED <<role, title>>
        <4>1. PICK o \in Orgs : /\ title[o] = None /\ title' = [title EXCEPT ![o] = "n1"]
                                /\ role' = [role EXCEPT ![o][u] = "owner"]
          BY <1>4, <3>2 DEF Accepted, create_account
        <4>2. DBOK([role EXCEPT ![o][u] = "owner"], [title EXCEPT ![o] = "n1"], invites)
          BY <1>1, <4>1, Founded, InvIs
        <4> QED BY <1>1, <4>1, <4>2
      <3> QED BY <3>1, <3>2
    <2>3. AsksOK(asks, Len(invites))'
      BY <1>1, InvIs
    <2>4. CASE UNCHANGED <<cookie, tab>>
      <3>1. Follows(tab, tab', cookie', Len(invites'))
        BY <1>1, <2>4, SelfFollows
      <3> QED BY <2>1, <2>2, <2>3, <2>4, <3>1, Stepped, InvIs
    <2>5. CASE /\ cookie' = [user |-> u, live |-> TRUE]
               /\ tab' = [tab EXCEPT !.me = Invalidate(@), !.owed = stamp']
      <3>1. cookie' \in Session
        BY <1>1, <2>5 DEF Session
      <3>2. /\ DOMAIN tab' = DOMAIN tab /\ tab'.email = tab.email /\ tab'.sent = tab.sent
            /\ tab'.me = Invalidate(tab.me)
        BY <1>0, <2>5 DEF TabFields
      <3>3. MeOK(Invalidate(tab.me), cookie', Len(invites))
        BY <1>0, <1>1, SignedInOK
      <3>4. Follows(tab, tab', cookie', Len(invites'))
        BY <1>0, <1>1, <3>2, <3>3 DEF Follows
      <3> QED BY <2>1, <2>2, <2>3, <3>1, <3>4, Stepped
    <2> QED BY <1>4, <2>4, <2>5
  <1> QED BY <1>2, <1>3, <1>4

LEMMA ExpiresKeeps == ASSUME Inv, Expires PROVE Inv'
  <1>1. UNCHANGED <<role, title, asks, tab, stamp>>
    BY DEF Expires
  <1>2. CASE UNCHANGED <<invites, cookie>>
    BY <1>1, <1>2, StillStep
  <1>3. CASE UNCHANGED invites /\ cookie # None /\ cookie' = [cookie EXCEPT !.live = FALSE]
    <2>1. cookie' \in Session /\ cookie'.user = cookie.user
      BY <1>3, InvIs DEF Session
    <2>2. MeOK(tab.me, cookie', Len(invites))
      <3>1. Len(invites) <= Len(invites) /\ cookie' # None
        BY <2>1, InvIs, NoneIsNone
      <3> QED BY <2>1, <3>1, InvIs, MoreOK
    <2>3. Follows(tab, tab', cookie', Len(invites'))
      BY <1>1, <1>3, <2>2, InvIs DEF Follows
    <2> QED BY <1>1, <1>3, <2>1, <2>3, InvIs, Stepped
  <1>4. CASE /\ \E i \in DOMAIN invites :
                  invites[i] # None /\ invites' = [invites EXCEPT ![i].stands = FALSE]
             /\ UNCHANGED cookie
    <2>1. PICK i \in DOMAIN invites : invites[i] # None /\ invites' = [invites EXCEPT ![i].stands = FALSE]
      BY <1>4
    <2> DEFINE e == [invites[i] EXCEPT !.stands = FALSE]
    <2>2. invites \in Seq(Invitation \cup {None}) /\ DOMAIN invites = 1 .. Len(invites)
      BY InvIs DEF DBOK, DBType
    <2>3. invites[i] \in Invitation
      BY <2>1, <2>2, ElementOfSeq
    <2>4. e \in Invitation /\ e.org = invites[i].org
      BY <2>3 DEF Invitation
    <2>5. invites' = [invites EXCEPT ![i] = e]
      BY <2>1
    <2> HIDE DEF e
    <2>6. /\ invites' \in Seq(Invitation \cup {None}) /\ Len(invites') = Len(invites)
          /\ \A j \in 1 .. Len(invites) : invites'[j] = IF j = i THEN e ELSE invites[j]
      <3> DEFINE S == Invitation \cup {None}
                 js == [invites EXCEPT ![i] = e]
      <3>1. invites \in Seq(S) /\ i \in 1 .. Len(invites) /\ e \in S
        BY <2>1, <2>2, <2>4
      <3> HIDE DEF S
      <3>2. /\ js \in Seq(S) /\ Len(js) = Len(invites)
            /\ \A j \in 1 .. Len(invites) : js[j] = IF j = i THEN e ELSE invites[j]
        BY <3>1, ExceptSeq
      <3> HIDE DEF js
      <3> QED BY <2>5, <3>2 DEF js, S
    <2>7. DOMAIN invites' = DOMAIN invites
      BY <2>2, <2>6, LenProperties
    <2>8. Invited(title, invites')
      BY <2>1, <2>2, <2>4, <2>6, <2>7, InvIs DEF DBOK, Invited
    <2>9. DBOK(role, title, invites)'
      BY <1>1, <2>6, <2>8, InvIs DEF DBOK, DBType
    <2>10. Follows(tab, tab', cookie', Len(invites')) /\ AsksOK(asks, Len(invites))'
      BY <1>1, <1>4, <2>6, SelfFollows, InvIs
    <2> QED BY <1>1, <1>4, <2>9, <2>10, InvIs, Stepped
  <1> QED BY <1>2, <1>3, <1>4 DEF Expires

LEMMA CommitKeeps == ASSUME Inv, NEW k \in DOMAIN asks, CommitAsk(k) PROVE Inv'
  <1> DEFINE a == asks[k]
             o == Outcome(a)
             b == [a EXCEPT !.stage = IF o.ok THEN "done" ELSE "refused"]
  <1>1. Sane(a, Len(invites)) /\ a.stage = "go"
    BY InvIs, AskIsSane DEF CommitAsk
  <1>2. Right(o)
    <2> HIDE DEF a
    <2> QED BY <1>1, InvIs, OutcomeRight
  <1>3. role' = o.role /\ title' = o.title /\ invites' = o.invites /\ stamp' = stamp + 1 /\ tab' = tab
    BY DEF CommitAsk
  <1>4. cookie' = cookie \/ (cookie # None /\ cookie' = [cookie EXCEPT !.live = FALSE])
    BY DEF CommitAsk, EndsSession
  <1>5. asks' = [asks EXCEPT ![k] = b] \/ asks' = RemoveAt(asks, k)
    BY DEF CommitAsk
  <1>6. Sane(b, Len(invites))
    <2> HIDE DEF o
    <2>1. /\ DOMAIN b = DOMAIN a /\ b.op = a.op /\ b.org = a.org /\ b.about = a.about /\ b.with = a.with
          /\ b.stage # "go"
      BY <1>1 DEF Sane
    <2> HIDE DEF a, b
    <2> QED BY <1>1, <2>1 DEF Sane
  <1> HIDE DEF a, o, b
  <1>7. DBOK(role, title, invites)' /\ Len(invites) <= Len(invites')
    BY <1>2, <1>3 DEF Right
  <1>8. Len(invites) \in Nat /\ Len(invites') \in Nat
    BY <1>7, InvIs, LenProperties DEF DBOK, DBType
  <1>9. AsksOK(asks', Len(invites))
    BY <1>5, <1>6, InvIs, RemoveOK, ReplaceOK
  <1>10. AsksOK(asks, Len(invites))'
    BY <1>7, <1>8, <1>9, MoreAsksOK
  <1>11. cookie' \in Session \cup {None} /\ (cookie # None => cookie' # None /\ cookie'.user = cookie.user)
    <2>1. CASE cookie' = cookie
      BY <2>1, InvIs
    <2>2. CASE cookie # None /\ cookie' = [cookie EXCEPT !.live = FALSE]
      <3>1. cookie' \in Session /\ cookie'.user = cookie.user
        BY <2>2, InvIs DEF Session
      <3> QED BY <3>1, NoneIsNone
    <2> QED BY <1>4, <2>1, <2>2
  <1>12. MeOK(tab.me, cookie', Len(invites'))
    BY <1>7, <1>8, <1>11, InvIs, MoreOK
  <1>13. Follows(tab, tab', cookie', Len(invites'))
    BY <1>3, <1>12, InvIs DEF Follows
  <1>14. stamp' \in Nat
    BY <1>3, InvIs
  <1> QED BY <1>7, <1>10, <1>11, <1>13, <1>14, Stepped

(* What an answer makes of the tab while its session stays.                *)
LEMMA SuccessFollows ==
    ASSUME NEW t, NEW a, NEW c, NEW n, Follows(t, t, c, n)
    PROVE  Follows(t, onSuccess(t, a), c, n)
  <1> DEFINE u == InvalidateMe(t)
  <1>1. Follows(t, u, c, n)
    BY InvalidateMeFollows
  <1>2. Follows(u, u, c, n)
    BY <1>1, FollowsSelf
  <1> HIDE DEF u
  <1>3. Follows(u, InvalidatePanel(u), c, n) /\ Follows(t, InvalidatePanel(t), c, n)
    BY <1>2, InvalidatePanelFollows
  <1>4. Follows(t, InvalidatePanel(u), c, n)
    BY <1>1, <1>3, FollowsAgain
  <1>5. Follows(t, letGo(t, None), c, n)
    BY LetGoFollows DEF Follows
  <1>6. RefreshPanel(u, a) \in {u, InvalidatePanel(u)} /\ RefreshPanel(t, a) \in {t, InvalidatePanel(t)}
    BY DEF RefreshPanel
  <1>7. onSuccess(t, a) \in {letGo(t, None), RefreshPanel(u, a), RefreshPanel(t, a), InvalidatePanel(u), u}
    <2>1. CASE a.op \in Leaving
      BY <2>1 DEF onSuccess, Leaving
    <2>2. CASE a.op \in {"setRole", "remove", "transfer"}
      BY <2>2 DEF onSuccess, Leaving, u
    <2>3. CASE a.op \in {"invite", "revoke"}
      BY <2>3 DEF onSuccess, Leaving
    <2>4. CASE a.op = "end"
      BY <2>4 DEF onSuccess, Leaving, u
    <2>5. CASE a.op \notin Leaving \cup {"setRole", "remove", "transfer", "invite", "revoke", "end"}
      BY <2>5 DEF onSuccess, u
    <2> QED BY <2>1, <2>2, <2>3, <2>4, <2>5
  <1> QED BY <1>1, <1>3, <1>4, <1>5, <1>6, <1>7

LEMMA AnswerKeeps == ASSUME Inv, NEW k \in DOMAIN asks, AskAnswers(k) PROVE Inv'
  <1> DEFINE a == asks[k]
             n == Len(invites)
             Ends == a.stage = "done" /\ a.op \in Leaving
  <1>1. UNCHANGED <<role, title, invites, stamp>> /\ asks' = RemoveAt(asks, k)
    BY DEF AskAnswers, orgVars
  <1>2. AsksOK(asks, Len(invites))'
    BY <1>1, InvIs, RemoveOK
  <1>3. CASE Ends /\ cookie' = None /\ tab' = Gated(onSuccess(tab, a))
    <2>1. onSuccess(tab, a) = letGo(tab, None)
      BY <1>3 DEF onSuccess, Leaving
    <2>2. Follows(tab, letGo(tab, None), None, n)
      BY InvIs, LetGoFollows
    <2>3. Follows(tab, tab', cookie', Len(invites'))
      BY <1>1, <1>3, <2>1, <2>2, GatedFollows
    <2> QED BY <1>1, <1>2, <1>3, <2>3, InvIs, Stepped
  <1>4. CASE cookie' = cookie
    <2>1. tab' \in {Gated(onSuccess(tab, a)), Gated(onLapsed(tab)), Leaves(onUnauthorized(tab), a),
                    tab, Leaves(tab, a)}
      <3>1. \/ tab' = CASE a.stage = "done" -> Gated(onSuccess(tab, a))
                        [] a.stage = "lapsed" -> Gated(onLapsed(tab))
                        [] a.stage = "unauthorized" -> Leaves(onUnauthorized(tab), a)
                        [] OTHER -> tab
            \/ tab' = Leaves(tab, a)
        BY DEF AskAnswers
      <3> HIDE DEF a
      <3> QED BY <3>1
    <2> HIDE DEF a
    <2>2. Follows(tab, tab, cookie, n)
      BY SelfFollows
    <2> HIDE DEF n
    <2>3. Follows(tab, onUnauthorized(tab), cookie, n)
      BY <2>2, UnauthorizedFollows
    <2>4. \A t : Follows(tab, t, cookie, n) => Follows(tab, Leaves(t, a), cookie, n)
      <3> SUFFICES ASSUME NEW t, Follows(tab, t, cookie, n) PROVE Follows(tab, Leaves(t, a), cookie, n)
        OBVIOUS
      <3>1. Follows(t, letGo(t, None), cookie, n)
        BY LetGoFollows DEF Follows
      <3>2. Follows(tab, letGo(t, None), cookie, n)
        BY <3>1, FollowsAgain
      <3> QED BY <3>2 DEF Leaves
    <2>5. Follows(tab, Gated(onSuccess(tab, a)), cookie, n)
      BY <2>2, SuccessFollows, GatedFollows
    <2>6. Follows(tab, Gated(onLapsed(tab)), cookie, n)
      BY <2>2, LapsedFollows, GatedFollows
    <2>7. Follows(tab, tab', cookie, n)
      BY <2>1, <2>2, <2>3, <2>4, <2>5, <2>6
    <2>8. Follows(tab, tab', cookie', Len(invites'))
      BY <1>1, <1>4, <2>7 DEF n
    <2> QED BY <1>1, <1>2, <1>4, <2>8, InvIs, Stepped
  <1>5. (Ends /\ cookie' = None /\ tab' = Gated(onSuccess(tab, a))) \/ cookie' = cookie
    BY DEF AskAnswers
  <1> QED BY <1>3, <1>4, <1>5

-----------------------------------------------------------------------------
(* Together.                                                               *)

LEMMA InitHolds == Init => Inv
  <1> SUFFICES ASSUME Init PROVE Inv
    OBVIOUS
  <1>1. DBOK(role, title, invites)
    <2>1. /\ role = FirstRoles /\ invites = FirstInvites
          /\ title = [o \in Orgs |-> IF \E u \in Users : role[o][u] # None THEN "n1" ELSE None]
      BY DEF Init, AccountsInit
    <2>2. /\ role \in [Orgs -> [Users -> Role \cup {None}]]
          /\ \A o \in Orgs : \A u, v \in Users : role[o][u] = "owner" /\ role[o][v] = "owner" => u = v
          /\ invites \in Seq(Invitation \cup {None})
          /\ \A i \in DOMAIN invites : invites[i] # None =>
               \E u \in Users : role[invites[i].org][u] # None
      BY <2>1, AccountsAssumption
    <2>3. "n1" \in Titles /\ "n1" # None
      BY NoneIsNone DEF Titles
    <2>4. title \in [Orgs -> Titles \cup {None}]
      BY <2>1, <2>3
    <2>5. \A o \in Orgs : title[o] = None <=> \A u \in Users : role[o][u] = None
      BY <2>1, <2>3
    <2>6. \A i \in DOMAIN invites : invites[i] # None => invites[i].org \in Orgs
      BY <2>2, LenProperties, ElementOfSeq DEF Invitation
    <2>7. Peopled(role, title) /\ SoleOwners(role)
      BY <2>2, <2>5 DEF Peopled, SoleOwners
    <2>8. Invited(title, invites)
      BY <2>2, <2>5, <2>6 DEF Invited
    <2> QED BY <2>2, <2>4, <2>7, <2>8 DEF DBOK, DBType
  <1>2. stamp \in Nat /\ asks = <<>>
    BY DEF Init, AccountsInit
  <1>3. AsksOK(asks, Len(invites))
    <2>1. asks \in Seq({})
      BY <1>2, EmptySeq
    <2> QED BY <2>1 DEF AsksOK
  <1>4. cookie \in Session \cup {None}
    <2>1. PICK u \in FirstSessions \cup {None} : cookie = IF u = None THEN None ELSE [user |-> u, live |-> TRUE]
      BY DEF Init, AccountsInit
    <2>2. u \in Users \cup {None}
      BY AccountsAssumption
    <2> QED BY <2>1, <2>2 DEF Session
  <1>5. TabOK
    <2> DEFINE First(s, q) == [at |-> s, next |-> None, email |-> None, sent |-> FALSE, choice |-> None,
                               me |-> q, key |-> None, panel |-> Query, owed |-> 0]
               q == IF left.ops \cap AccountOps = {} THEN Query ELSE Mount(Query)
    <2>1. PICK s \in Section : tab = Gated(First(s, q))
      BY DEF Init, AccountsInit, Section
    <2> DEFINE t == First(s, q)
    <2>2. MeOK(q, cookie, Len(invites))
      <3>1. MeOK(Query, cookie, Len(invites))
        BY QueryIs DEF MeOK, Of
      <3>2. MeOK(Mount(Query), cookie, Len(invites))
        BY EmptyOK
      <3> QED BY <3>1, <3>2
    <2> HIDE DEF q
    <2>3. TabFields \subseteq DOMAIN t /\ t.sent = FALSE /\ t.me = q
      BY DEF TabFields
    <2>4. tab = Gated(t)
      BY <2>1
    <2> HIDE DEF t
    <2>5. Like(t, tab)
      BY <2>3, <2>4, GatedLike
    <2> QED BY <2>2, <2>3, <2>5 DEF TabOK, Like, TabFields
  <1> QED BY <1>1, <1>2, <1>3, <1>4, <1>5 DEF Inv

LEMMA AccountsStepKeeps == ASSUME Inv, AccountsNext PROVE Inv'
  <1>1. CASE AwayRoles \/ AwayOffers \/ AwayEnds
    BY <1>1, AwayKeeps
  <1>2. CASE Expires \/ askForCode \/ UseADifferentEmail \/ signIn
    BY <1>2, ExpiresKeeps, CodeKeeps, SignInKeeps
  <1>3. CASE getCurrentAccount \/ MeArrives \/ readPanel \/ PanelArrives
    BY <1>3, ReadMeKeeps, MeArrivesKeeps, ReadPanelKeeps, PanelArrivesKeeps
  <1>4. CASE Navigate \/ LookAgain \/ ChooseOrganization
    BY <1>4, LooksKeep
  <1>5. CASE MembersPage \/ GeneralPage \/ InvitationsPage \/ PendingInvitations \/ AccountPage \/ UserMenu
    BY <1>5, PagesKeep
  <1>6. CASE \E k \in DOMAIN asks : CommitAsk(k) \/ AskAnswers(k)
    BY <1>6, CommitKeeps, AnswerKeeps
  <1> QED BY <1>1, <1>2, <1>3, <1>4, <1>5, <1>6 DEF AccountsNext

LEMMA StepKeeps == Inv /\ [Next]_vars => Inv'
  <1> SUFFICES ASSUME Inv, [Next]_vars PROVE Inv'
    OBVIOUS
  <1>1. CASE AccountsNext
    BY <1>1, AccountsStepKeeps
  <1>2. CASE UNCHANGED accountVars
    <2>1. UNCHANGED <<role, title, invites, asks, cookie, tab, stamp>>
      BY <1>2 DEF accountVars, orgVars
    <2> QED BY <2>1, StillStep
  <1>3. CASE UNCHANGED vars
    BY <1>2, <1>3 DEF vars
  <1> QED BY <1>1, <1>2, <1>3 DEF Next

LEMMA Invariance == Spec => []Inv
  BY InitHolds, StepKeeps, PTL DEF Spec

(* An Organization has one owner at most, whatever transfers, changes of   *)
(* roles, removals, accepted Invitations, new accounts and ended           *)
(* Organizations overlap: transfer_ownership looks again under its locks,  *)
(* and no other handler writes "owner" where somebody is.                  *)
THEOREM OwnerAlone == Spec => []OneOwner
  <1>1. Inv => OneOwner
    BY DEF Inv, DBOK, SoleOwners, OneOwner, Owner
  <1> QED BY <1>1, Invariance, PTL

(* A tab that shows an account and asks for no other has the cookie of     *)
(* that account, whoever signs in and out and whatever answer is late:     *)
(* letGo empties the cache, and the sign-in screen drops older answers.    *)
THEOREM ShowsOwnAccount == Spec => []OwnData
  <1>1. Inv => OwnData
    BY SignedOutIs DEF Inv, TabOK, MeOK, Of, OwnData, MeOf
  <1> QED BY <1>1, Invariance, PTL

-----------------------------------------------------------------------------
(* A file that lands without asking.                                       *)

(* Where the match leaves no doubt, a Variable has one column of its name, *)
(* and the first column with the header it was given is that one.          *)
LEMMA SureColumn ==
    ASSUME NEW f \in Files, NEW columns, NEW n \in PlainNames(columns),
           reconcile(f.headers, columns).confident
    PROVE  LET h == reconcile(f.headers, columns).mapping[n]
               own == {i \in DOMAIN f.headers : Norm[f.headers[i]] = Norm[n]}
           IN /\ Cardinality(own) = 1 /\ h # None
              /\ \E i \in own :
                   i = CHOOSE k \in DOMAIN f.headers :
                           f.headers[k] = h /\ \A j \in 1 .. k - 1 : f.headers[j] # h
  <1> DEFINE headers == f.headers
             usable == Usable(headers, columns)
             exact == Exact(n, usable)
             own == {i \in DOMAIN headers : Norm[headers[i]] = Norm[n]}
             secret == {Norm[m] : m \in SecretNames(columns)}
             h == reconcile(headers, columns).mapping[n]
             First(k) == headers[k] = h /\ \A j \in 1 .. k - 1 : headers[j] # h
  <1> SUFFICES Cardinality(own) = 1 /\ h # None /\ \E i \in own : i = CHOOSE k \in DOMAIN headers : First(k)
    OBVIOUS
  <1>1. headers \in Seq(DOMAIN Norm \ {None})
    BY FilesAssumption
  <1>2. /\ DOMAIN usable = {j \in DOMAIN headers : Norm[headers[j]] \notin secret}
        /\ \A i \in DOMAIN usable : usable[i] = headers[i]
    BY DEF Usable
  <1>3. n \in UniqueExact(usable, columns)
    BY DEF reconcile
  <1>4. Cardinality(exact) = 1
    BY <1>3 DEF UniqueExact
  <1>5. exact \subseteq DOMAIN headers
    BY <1>2 DEF Exact
  <1>6. IsFiniteSet(exact)
    <2>1. DOMAIN headers = 1 .. Len(headers) /\ Len(headers) \in Nat
      BY <1>1
    <2>2. IsFiniteSet(DOMAIN headers)
      BY <2>1, FS_Interval
    <2> QED BY <1>5, <2>2, FS_Subset
  <1>7. PICK i0 : exact = {i0}
    BY <1>4, <1>6, FS_Singleton
  <1>8. own = exact
    <2>1. \A i \in own : i \in exact
      BY <1>2, <1>7 DEF Exact
    <2> QED BY <1>2, <2>1 DEF Exact
  <1>9. h = headers[i0]
    <2>1. h = usable[CHOOSE i \in exact : TRUE]
      BY <1>3 DEF reconcile
    <2>2. (CHOOSE i \in exact : TRUE) \in exact
      BY <1>7
    <2> QED BY <1>2, <1>7, <2>1, <2>2 DEF Exact
  <1>10. i0 \in DOMAIN headers /\ headers[i0] # None /\ i0 \in 1 .. Len(headers)
    BY <1>1, <1>5, <1>7
  <1>11. \A j \in DOMAIN headers : headers[j] = h => j = i0
    BY <1>2, <1>7, <1>8, <1>9 DEF Exact
  <1>12. First(i0)
    <2>1. \A j \in 1 .. i0 - 1 : j \in DOMAIN headers /\ j # i0
      BY <1>1, <1>10
    <2> QED BY <1>9, <1>11, <2>1
  <1>13. \A k \in DOMAIN headers : First(k) => k = i0
    BY <1>11
  <1> HIDE DEF First
  <1>14. i0 = CHOOSE k \in DOMAIN headers : First(k)
    BY <1>10, <1>12, <1>13
  <1> QED BY <1>4, <1>7, <1>8, <1>9, <1>10, <1>14

\* What applyImport puts under a Variable.
LEMMA ImportIs ==
    ASSUME NEW f, NEW assignment, NEW columns
    PROVE  LET rows == applyImport(f, assignment, columns)
               at(h) == CHOOSE k \in DOMAIN f.headers :
                           f.headers[k] = h /\ \A j \in 1 .. k - 1 : f.headers[j] # h
           IN /\ DOMAIN rows = DOMAIN f.rows
              /\ \A r \in DOMAIN f.rows : DOMAIN rows[r] = PlainNames(columns)
              /\ \A r \in DOMAIN f.rows, n \in PlainNames(columns) :
                   n \in DOMAIN assignment /\ assignment[n] # None =>
                       rows[r][n] = f.rows[r][at(assignment[n])]
  BY DEF applyImport

LEMMA ImportsOwn ==
    ASSUME NEW f \in Files, NEW columns, reconcile(f.headers, columns).confident,
           NEW rows, rows = applyImport(f, reconcile(f.headers, columns).mapping, columns),
           NEW r \in DOMAIN rows, NEW n \in DOMAIN rows[r]
    PROVE  LET own == {i \in DOMAIN f.headers : Norm[f.headers[i]] = Norm[n]} IN
           Cardinality(own) = 1 /\ rows[r][n] \in {f.rows[r][i] : i \in own}
  <1> DEFINE mapping == reconcile(f.headers, columns).mapping
             own == {i \in DOMAIN f.headers : Norm[f.headers[i]] = Norm[n]}
             at(h) == CHOOSE k \in DOMAIN f.headers :
                          f.headers[k] = h /\ \A j \in 1 .. k - 1 : f.headers[j] # h
  <1> SUFFICES Cardinality(own) = 1 /\ rows[r][n] \in {f.rows[r][i] : i \in own}
    OBVIOUS
  <1>1. r \in DOMAIN f.rows /\ n \in PlainNames(columns)
    BY ImportIs
  <1>2. Cardinality(own) = 1 /\ mapping[n] # None /\ \E i \in own : i = at(mapping[n])
    BY <1>1, SureColumn
  <1>3. n \in DOMAIN mapping
    BY <1>1 DEF reconcile
  <1>4. rows[r][n] = f.rows[r][at(mapping[n])]
    BY <1>1, <1>2, <1>3, ImportIs
  <1> QED BY <1>2, <1>4

LEMMA FileLands ==
    ASSUME [Next]_vars
    PROVE  [LandsSurely]_<<batchVars, published, left>>
  <1> SUFFICES ASSUME NEW f \in Files, reading # None, reading' = None, reading.file = f,
                      grid'.rows # grid.rows,
                      NEW r \in DOMAIN grid'.rows, NEW n \in DOMAIN grid'.rows[r]
               PROVE  LET own == {i \in DOMAIN f.headers : Norm[f.headers[i]] = Norm[n]} IN
                      Cardinality(own) = 1 /\ grid'.rows[r][n] \in {f.rows[r][i] : i \in own}
    BY DEF LandsSurely
  <1>1. landCsv
    <2>1. ~UNCHANGED batchVars
      BY DEF batchVars
    <2>2. BatchFormNext
      BY <2>1 DEF Next, vars
    <2>3. ChooseFile => FALSE
      BY DEF ChooseFile
    <2> QED BY <2>2, <2>3 DEF BatchFormNext, OpenGrid, TypeCell, AddRow, TickAnyway, Paste, Copy,
              CopyAnswers, Assign, confirmImport, FoldSummary, ChangeMapping, Edits,
              Focus, ClickCreate, fillAdded, loadPublishedVariables, CheckAnswers, CheckFails, create_batch
  <1> DEFINE columns == reading.columns
             rows == grid'.rows
  <1>2. /\ reconcile(f.headers, columns).confident
        /\ rows = applyImport(f, reconcile(f.headers, columns).mapping, columns)
    BY <1>1 DEF landCsv, beginImport
  <1>3. r \in DOMAIN rows /\ n \in DOMAIN rows[r]
    OBVIOUS
  <1> SUFFICES LET own == {i \in DOMAIN f.headers : Norm[f.headers[i]] = Norm[n]} IN
               Cardinality(own) = 1 /\ rows[r][n] \in {f.rows[r][i] : i \in own}
    OBVIOUS
  <1> HIDE DEF columns, rows
  <1> QED BY <1>2, <1>3, ImportsOwn

(* Every value that landCsv puts under a Variable without asking comes     *)
(* from the one column of that Variable's name (reconcile).                *)
LEMMA LandsOwn == Spec => NeverGuessed
  BY FileLands, PTL DEF Spec, NeverGuessed
-----------------------------------------------------------------------------
(* What a Schedule is saved with.                                          *)

FormFields == DOMAIN Form("new")
Filled(body) == \A n \in DOMAIN body.values : trim(body.values[n]) # Blank

\* A query that has found the Schedule is right to.
Stored == "values" \in DOMAIN sched
Finds(q) ==
    /\ {"data", "fetch", "error"} \subseteq DOMAIN q
    /\ q.data # None => Stored
    /\ q.fetch # None /\ q.fetch.read /\ q.fetch.got # None => Stored

\* The list asks for changes of a Schedule there is.
ListInv ==
    /\ Finds(list)
    /\ DOMAIN Row \subseteq DOMAIN row /\ "at" \in DOMAIN row.toggle
    /\ row.toggle.at # "none" \/ row.fire # "none" => Stored

\* The form has its fields, and what it sent has no blank.
SaveInv ==
    /\ sched # None => Stored
    /\ ListInv
    /\ sf # None => FormFields \subseteq DOMAIN sf
    /\ sf # None /\ sf.saving = "sent" => Filled(sf.body)

\* f is g but for what the effects and the person fill in.
Kept(f, g) == DOMAIN f = DOMAIN g /\ f.saving = g.saving /\ f.body = g.body

LEMMA SettledKept ==
    ASSUME NEW f, NEW data, FormFields \subseteq DOMAIN f
    PROVE  Kept(Settled(f, data), f)
  BY DEF Settled, Kept, FormFields, Form

LEMMA EmptyForm ==
    ASSUME NEW id
    PROVE  FormFields \subseteq DOMAIN Form(id) /\ Form(id).saving = "none"
  BY DEF Form, FormFields

\* SaveInv but for the list.
FormInv ==
    /\ sched # None => Stored
    /\ sf # None => FormFields \subseteq DOMAIN sf
    /\ sf # None /\ sf.saving = "sent" => Filled(sf.body)

\* A form that keeps what it sent.
LEMMA KeptSave ==
    ASSUME SaveInv, sf # None, Kept(sf', sf), UNCHANGED sched
    PROVE  FormInv'
  BY DEF SaveInv, FormInv, Kept, Filled, Stored

LEMMA EditKept ==
    ASSUME SaveInv, sf # None,
           ChoosePreset \/ TypeCron \/ WriteCron \/ BackToSentence \/ PickFrequency
             \/ PickNumber \/ PickTime \/ PickZone \/ TypeValue \/ TickEnabled \/ FillFromLastRun
    PROVE  Kept(sf', sf) /\ UNCHANGED sched
  <1>1. {"mode", "asked", "zone", "values", "enabled", "saving", "body"} \subseteq DOMAIN sf
    BY DEF SaveInv, FormFields, Form
  <1>2. ASSUME NEW mode, NEW meaning, Asks(mode, meaning) PROVE Kept(sf', sf)
    BY <1>1, <1>2 DEF Asks, Kept
  <1>3. CASE ChoosePreset \/ TypeCron \/ WriteCron \/ BackToSentence
    BY <1>2, <1>3 DEF ChoosePreset, TypeCron, WriteCron, BackToSentence, Edits_
  <1>4. CASE PickFrequency \/ PickNumber \/ PickTime
    BY <1>2, <1>4 DEF PickFrequency, PickNumber, PickTime, Says, Edits_
  <1>5. CASE PickZone \/ TypeValue \/ TickEnabled \/ FillFromLastRun
    BY <1>1, <1>5 DEF PickZone, TypeValue, TickEnabled, FillFromLastRun, Edits_, Kept
  <1> QED BY <1>3, <1>4, <1>5

LEMMA SubmitSaves == ASSUME SaveInv, submit PROVE FormInv'
  <1>1. sf # None /\ FormFields \subseteq DOMAIN sf /\ UNCHANGED sched
    BY DEF submit, Ready, InForm, SaveInv
  <1>2. {"tried", "saving", "body", "values"} \subseteq DOMAIN sf
    BY <1>1 DEF FormFields, Form
  <1>3. CASE emptyVariableNames # {}
    <2>1. Kept(sf', sf)
      BY <1>2, <1>3 DEF submit, Kept
    <2> QED BY <1>1, <2>1, KeptSave
  <1>4. CASE emptyVariableNames = {}
    <2>1. sf' = [sf EXCEPT !.tried = TRUE, !.saving = "sent", !.body = scheduleBody]
      BY <1>4 DEF submit
    <2>2. Filled(scheduleBody)
      BY <1>4 DEF Filled, scheduleBody, submittedVariables, emptyVariableNames
    <2>3. DOMAIN sf' = DOMAIN sf /\ sf'.body = scheduleBody
      BY <1>2, <2>1
    <2> QED BY <1>1, <2>2, <2>3 DEF SaveInv, FormInv, Filled, Stored
  <1> QED BY <1>3, <1>4

LEMMA CommitSaves == ASSUME SaveInv, SaveCommits PROVE FormInv' /\ SavesAll
  <1> DEFINE b == sf.body
             refused == ~is_valid(b.cron) \/ ~(public_variable_names \subseteq DOMAIN b.values)
             old == IF sched = None THEN Schedule(b.cron, b.zone, b.enabled, b.values) ELSE sched
  <1>1. /\ sf # None /\ sf.saving = "sent" /\ Filled(b) /\ FormFields \subseteq DOMAIN sf
        /\ sf' = [sf EXCEPT !.saving = IF refused THEN "refused" ELSE "stored"]
        /\ sched' = IF refused THEN sched
                    ELSE [old EXCEPT !.cron = b.cron, !.zone = b.zone, !.enabled = b.enabled,
                                     !.values = stored_variables(b.values), !.ver = @ + 1]
    BY DEF SaveCommits, SaveInv
  <1>2. "saving" \in DOMAIN sf
    BY <1>1 DEF FormFields, Form
  <1>3. "values" \in DOMAIN old
    BY DEF SaveInv, Stored, Schedule
  <1> HIDE DEF old, refused
  <1>4. "values" \in DOMAIN sched' \/ sched' = sched
    BY <1>1, <1>3
  <1>5. DOMAIN sf' = DOMAIN sf /\ sf'.saving # "sent"
    BY <1>1, <1>2
  <1>6. FormInv'
    BY <1>1, <1>4, <1>5 DEF SaveInv, FormInv, Stored
  <1>7. ASSUME sched' # sched, NEW n \in public_variable_names
        PROVE  trim(Cell(sched'.values, n)) # Blank
    <2>1. ~refused /\ sched'.values = stored_variables(b.values)
      BY <1>1, <1>3, <1>7
    <2>2. n \in DOMAIN b.values
      BY <2>1 DEF refused
    <2> QED BY <1>1, <2>1, <2>2 DEF stored_variables, Cell, Filled
  <1> QED BY <1>6, <1>7 DEF SavesAll

(* Nothing but SaveCommits writes the Schedule and the form at once.       *)
LEMMA FormKeeps == ASSUME SaveInv, [Next]_vars PROVE FormInv' /\ SavesAll
  <1>1. CASE UNCHANGED <<sched, sf>>
    BY <1>1 DEF SaveInv, FormInv, Stored, SavesAll, Filled
  <1>2. CASE Elsewhere \/ handle_due \/ RunEnds \/ patchEnabled \/ run_schedule_now
    <2>1. sf' = sf
      BY <1>2 DEF Elsewhere, handle_due, RunEnds, patchEnabled, run_schedule_now
    <2>2. Stored
      BY <1>2 DEF SaveInv, ListInv, Elsewhere, handle_due, RunEnds, patchEnabled, run_schedule_now
    <2>3. Stored'
      BY <1>2, <2>2 DEF Stored, Elsewhere, handle_due, RunEnds, patchEnabled, run_schedule_now
    <2> QED BY <2>1, <2>2, <2>3 DEF SaveInv, FormInv, Stored, SavesAll, Filled
  <1>3. CASE OpenList \/ SaveAnswers
    <2>1. sched' = sched
      BY <1>3 DEF OpenList, SaveAnswers
    <2>2. sf' \in {None, sf, [sf EXCEPT !.saving = "none", !.error = TRUE]}
      BY <1>3 DEF OpenList, SaveAnswers
    <2>3. CASE sf' = None \/ sf' = sf
      BY <2>1, <2>3 DEF SaveInv, FormInv, Stored, SavesAll, Filled
    <2>4. CASE sf' # None /\ sf' # sf
      <3>1. sf # None /\ sf' = [sf EXCEPT !.saving = "none", !.error = TRUE]
        BY <1>3, <2>4 DEF OpenList, SaveAnswers
      <3>2. DOMAIN sf' = DOMAIN sf /\ sf'.saving = "none"
        BY <3>1 DEF SaveInv, FormFields, Form
      <3> QED BY <2>1, <3>1, <3>2 DEF SaveInv, FormInv, Stored, SavesAll
    <2> QED BY <2>3, <2>4
  <1>4. CASE OpenForm
    <2>1. sched' = sched
      BY <1>4 DEF OpenForm
    <2>2. PICK id, data : sf' = Settled(Form(id), data)
      BY <1>4 DEF OpenForm
    <2>3. Kept(sf', Form(id)) /\ FormFields \subseteq DOMAIN sf' /\ sf'.saving = "none"
      BY <2>2, EmptyForm, SettledKept DEF Kept
    <2> QED BY <2>1, <2>3 DEF SaveInv, FormInv, Stored, SavesAll
  <1>5. CASE DocumentArrives \/ InstanceArrives \/ DetailArrives
    <2>1. sched' = sched
      BY <1>5 DEF DocumentArrives, InstanceArrives, DetailArrives
    <2>2. CASE sf' = sf
      BY <2>1, <2>2, <1>1
    <2>3. CASE sf' # sf
      <3>1. sf # None /\ FormFields \subseteq DOMAIN sf
        BY <1>5, <2>3 DEF DocumentArrives, InstanceArrives, DetailArrives, InForm, SaveInv
      <3>2. PICK f, data : /\ f \in {sf, [sf EXCEPT !.doc = published], [sf EXCEPT !.zoned = TRUE]}
                           /\ sf' = Settled(f, data)
        BY <1>5, <2>3 DEF DocumentArrives, InstanceArrives, DetailArrives
      <3>3. Kept(f, sf)
        BY <3>1, <3>2 DEF Kept, FormFields, Form
      <3>4. Kept(sf', sf)
        BY <3>1, <3>2, <3>3, SettledKept DEF Kept
      <3> QED BY <2>1, <3>1, <3>4, KeptSave DEF SavesAll
    <2> QED BY <2>2, <2>3
  <1>6. CASE submit
    BY <1>6, SubmitSaves DEF submit, SavesAll
  <1>7. CASE SaveCommits
    BY <1>7, CommitSaves
  <1>8. CASE ChoosePreset \/ TypeCron \/ WriteCron \/ BackToSentence \/ PickFrequency
               \/ PickNumber \/ PickTime \/ PickZone \/ TypeValue \/ TickEnabled \/ FillFromLastRun
    <2>1. sf # None
      BY <1>8 DEF ChoosePreset, TypeCron, WriteCron, BackToSentence, PickFrequency, PickNumber, PickTime,
                  Says, PickZone, TypeValue, TickEnabled, FillFromLastRun, Edits_, Ready, InForm
    <2> QED BY <1>8, <2>1, EditKept, KeptSave DEF SavesAll
  <1>9. CASE ScheduleFormNext
    BY <1>1, <1>2, <1>3, <1>4, <1>5, <1>6, <1>7, <1>8, <1>9
    DEF ScheduleFormNext, fetchSchedulePage, ListArrives, getSchedule, Expand, ClickToggle, Lists,
        ToggleAnswers, ClickRunNow, RunNowAnswers
  <1> QED BY <1>1, <1>9 DEF Next, vars, scheduleVars

LEMMA FindsStay ==
    ASSUME NEW q, Finds(q), Stored => Stored'
    PROVE  Finds(q)'
  BY DEF Finds

LEMMA FindsAgain ==
    ASSUME NEW q, Finds(q)
    PROVE  Finds(Mount(q)) /\ Finds(Invalidate(q)) /\ Finds(Fail(q))
  BY DEF Finds, Mount, Invalidate, Fail, Begin

LEMMA FindsFound ==
    ASSUME NEW q, Finds(q), sched # None => Stored
    PROVE  /\ Finds(Read(q, as_summary(sched)))
           /\ q.fetch # None /\ q.fetch.read => Finds(Arrive(q))
  BY DEF Finds, Read, Arrive, as_summary

LEMMA RowIs == Row.toggle.at = "none" /\ Row.fire = "none" /\ "at" \in DOMAIN Row.toggle
  BY DEF Row, ask

\* Once there is a Schedule, there is one.
LEMMA StaysStored == ASSUME SaveInv, Stored, [Next]_vars PROVE Stored'
  <1>1. CASE UNCHANGED sched
    BY <1>1 DEF Stored
  <1>2. CASE SaveCommits
    BY <1>2, CommitSaves DEF FormInv, SaveCommits, Stored
  <1>3. CASE Elsewhere \/ handle_due \/ RunEnds \/ patchEnabled \/ run_schedule_now
    BY <1>3 DEF Stored, Elsewhere, handle_due, RunEnds, patchEnabled, run_schedule_now
  <1>4. CASE ScheduleFormNext
    BY <1>1, <1>2, <1>3, <1>4
    DEF ScheduleFormNext, OpenList, fetchSchedulePage, ListArrives, getSchedule, Expand, ClickToggle, Lists,
        ToggleAnswers, ClickRunNow, RunNowAnswers, OpenForm, DocumentArrives, InstanceArrives, DetailArrives,
        ChoosePreset, TypeCron, WriteCron, BackToSentence, PickFrequency, PickNumber, PickTime, Says,
        PickZone, TypeValue, TickEnabled, FillFromLastRun, Edits_, submit, SaveAnswers
  <1> QED BY <1>1, <1>4 DEF Next, vars, scheduleVars

(* The list and its row after a step of theirs.                            *)
LEMMA ListStep ==
    ASSUME SaveInv, [Next]_vars
    PROVE  /\ list' # list => list' = Mount(list) \/ list' = Invalidate(list) \/ list' = Fail(list)
                             \/ list' = Read(list, as_summary(sched))
                             \/ (list.fetch # None /\ list.fetch.read /\ list' = Arrive(list))
           /\ row' # row => /\ DOMAIN Row \subseteq DOMAIN row' /\ "at" \in DOMAIN row'.toggle
                            /\ row'.toggle.at # "none" \/ row'.fire # "none" => Stored
  <1>1. /\ DOMAIN Row \subseteq DOMAIN row /\ "at" \in DOMAIN row.toggle
        /\ row.toggle.at # "none" \/ row.fire # "none" => Stored
        /\ list.data # None => Stored
    BY DEF SaveInv, ListInv, Finds
  <1>2. {"open", "toggle", "fire", "owed"} \subseteq DOMAIN row
    BY <1>1 DEF Row
  <1>3. CASE UNCHANGED <<list, row>>
    BY <1>3
  <1>4. CASE fetchSchedulePage \/ ListArrives
    BY <1>4 DEF fetchSchedulePage, ListArrives
  <1>5. CASE OpenList \/ SaveAnswers
    BY <1>5, <1>1, RowIs DEF OpenList, SaveAnswers
  <1>6. CASE Expand \/ OpenForm
    BY <1>6, <1>1, <1>2 DEF Expand, OpenForm
  <1>7. CASE ClickToggle \/ ClickRunNow
    BY <1>7, <1>1, <1>2 DEF ClickToggle, ClickRunNow
  <1>8. CASE patchEnabled \/ run_schedule_now
    BY <1>8, <1>1, <1>2 DEF patchEnabled, run_schedule_now
  <1>9. CASE ToggleAnswers \/ RunNowAnswers
    <2>1. list' # list => list' \in {Invalidate(list), list}
      BY <1>9 DEF ToggleAnswers, RunNowAnswers
    <2>2. ask.at = "none" /\ "at" \in DOMAIN ask
      BY DEF ask
    <2>3. PICK n : row' = row \/ row' = [row EXCEPT !.toggle = ask, !.owed = n] \/ row' = [row EXCEPT !.toggle = ask]
                   \/ (row.fire = "done" /\ row' = [row EXCEPT !.fire = "none", !.owed = n])
                   \/ (row.fire = "done" /\ row' = [row EXCEPT !.fire = "refused"])
      BY <1>9 DEF ToggleAnswers, RunNowAnswers
    <2>4. row' # row => /\ DOMAIN row' = DOMAIN row /\ "at" \in DOMAIN row'.toggle
                        /\ row'.toggle.at # "none" \/ row'.fire # "none" => Stored
      BY <1>1, <1>2, <2>2, <2>3
    <2> QED BY <1>1, <2>1, <2>4
  <1>10. CASE ScheduleFormNext
    BY <1>3, <1>4, <1>5, <1>6, <1>7, <1>8, <1>9, <1>10
    DEF ScheduleFormNext, Elsewhere, handle_due, RunEnds, getSchedule, DocumentArrives, InstanceArrives,
        DetailArrives, ChoosePreset, TypeCron, WriteCron, BackToSentence, PickFrequency, PickNumber,
        PickTime, Says, PickZone, TypeValue, TickEnabled, FillFromLastRun, Edits_, submit, SaveCommits
  <1> QED BY <1>3, <1>10 DEF Next, vars, scheduleVars

LEMMA ListKeeps == ASSUME SaveInv, [Next]_vars PROVE ListInv'
  <1>1. ListInv /\ Finds(list) /\ (sched # None => Stored)
    BY DEF SaveInv, ListInv
  <1>2. Stored => Stored'
    BY StaysStored
  <1>3. PICK q, r : q = list' /\ r = row'
    OBVIOUS
  <1>4. Finds(q)
    BY <1>1, <1>3, ListStep, FindsAgain, FindsFound
  <1>5. Finds(q)'
    BY <1>2, <1>4, FindsStay
  <1>6. /\ DOMAIN Row \subseteq DOMAIN row' /\ "at" \in DOMAIN row'.toggle
        /\ row'.toggle.at # "none" \/ row'.fire # "none" => Stored
    BY <1>1, ListStep DEF ListInv
  <1> QED BY <1>2, <1>3, <1>5, <1>6 DEF ListInv, Row

LEMMA SaveKeeps == ASSUME SaveInv, [Next]_vars PROVE SaveInv' /\ SavesAll
  <1>1. FormInv' /\ ListInv' => SaveInv'
    BY DEF FormInv, SaveInv
  <1> QED BY <1>1, FormKeeps, ListKeeps

LEMMA SaveStarts == Init => SaveInv
  BY SchedulesAssumption, RowIs DEF Init, ScheduleFormInit, SaveInv, ListInv, Finds, Stored, Query, Schedule

(* A save never stores a Schedule with a blank value, whichever Version    *)
(* the form was filled in for (emptyVariableNames, create_schedule).       *)
LEMMA SavesWhole == Spec => SavedComplete
  <1>1. SaveInv /\ [Next]_vars => SaveInv' /\ [SavesAll]_<<scheduleVars, published, left>>
    BY SaveKeeps
  <1> QED BY <1>1, SaveStarts, PTL DEF Spec, SavedComplete
-----------------------------------------------------------------------------
(* What a Run is started with.                                             *)

StartFields == DOMAIN startBody("start", 1, <<>>, {}, 0)

\* What the values e hold for n was given to the dialog, or taken from Run k.
Given(e, n, k) == Cell(e, n) = IF k = 0 THEN Blank ELSE Cell(starts[k].values, n)

\* What a request was made of, and what it came to.
StartOK(k) ==
    /\ StartFields \subseteq DOMAIN starts[k]
    /\ starts[k].of # 0 => starts[k].of \in DOMAIN starts /\ starts[starts[k].of].state = "stored"
    /\ \A n \in DOMAIN starts[k].body \ starts[k].typed : Given(starts[k].body, n, starts[k].of)
    /\ starts[k].state = "stored" =>
         DOMAIN starts[k].values \cap SecretNames(Versions[starts[k].runs]) = {}

DialogOK ==
    dialog # None =>
        /\ dialog.by \in {"start", "again"} /\ (dialog.by = "again" => shown # 0)
        /\ \A n \in PlainNames(Versions[dialog.version]) \ typedIn :
             Given(entry, n, IF dialog.by = "again" THEN shown ELSE 0)

RunInv ==
    /\ published \in 1 .. Len(Versions)
    /\ \E S : starts \in Seq(S)
    /\ \A k \in DOMAIN starts : StartOK(k)
    /\ shown # 0 => shown \in DOMAIN starts /\ starts[shown].state = "stored"
    /\ DialogOK

LEMMA DeclaredApart ==
    ASSUME published \in 1 .. Len(Versions)
    PROVE  PlainNames(Declared) \cap SecretNames(Declared) = {}
  <1>1. Declared \in Seq([name : DOMAIN Norm, secret : BOOLEAN]) /\ published \in DOMAIN Versions
    BY VersionsAssumption DEF Declared
  <1>2. \A i, j \in DOMAIN Declared : Declared[i].name = Declared[j].name => i = j
    BY <1>1, VersionsAssumption DEF Declared
  <1> QED BY <1>2 DEF PlainNames, SecretNames

LEMMA BodyIs ==
    ASSUME NEW by, NEW v, NEW values, NEW typed, NEW of
    PROVE  LET s == startBody(by, v, values, typed, of) IN
           /\ DOMAIN s = StartFields /\ s.of = of /\ s.typed = typed /\ s.state = "sent"
           /\ DOMAIN s.body = PlainNames(Versions[v])
           /\ \A n \in DOMAIN s.body : Cell(s.body, n) = Cell(values, n)
  BY DEF startBody, StartFields, submittedVariables, Cell

LEMMA SetCellIs ==
    ASSUME NEW values, NEW columns, NEW n, NEW v, NEW m, m # n
    PROVE  Cell(setCell(values, columns, n, v), m) = Cell(values, m)
  BY DEF setCell, Cell

\* Nothing that a request was made of changes when one is added.
LEMMA StartAdded ==
    ASSUME RunInv, NEW s, starts' = Append(starts, s), UNCHANGED published,
           StartFields \subseteq DOMAIN s, s.state = "sent",
           s.of # 0 => s.of \in DOMAIN starts /\ starts[s.of].state = "stored",
           \A n \in DOMAIN s.body \ s.typed : Given(s.body, n, s.of)
    PROVE  /\ \E S : starts' \in Seq(S)
           /\ \A k \in DOMAIN starts' : StartOK(k)'
           /\ \A k \in DOMAIN starts : k \in DOMAIN starts' /\ starts'[k] = starts[k]
  <1>1. PICK S : starts \in Seq(S)
    BY DEF RunInv
  <1>2. starts' \in Seq(S \cup {s})
    BY <1>1
  <1>3. /\ DOMAIN starts' = 1 .. Len(starts) + 1 /\ DOMAIN starts = 1 .. Len(starts) /\ Len(starts) \in Nat
        /\ starts'[Len(starts) + 1] = s
        /\ \A k \in DOMAIN starts : starts'[k] = starts[k]
    BY <1>1
  <1>4. \A k \in DOMAIN starts : StartOK(k)'
    BY <1>3 DEF RunInv, StartOK, Given
  <1> PICK j : j = Len(starts) + 1
    OBVIOUS
  <1>5. StartOK(j)'
    <2>1. starts'[j] = s
      BY <1>3
    <2>2. s.of # 0 => s.of \in DOMAIN starts' /\ starts'[s.of] = starts[s.of]
      BY <1>3
    <2>3. \A n \in DOMAIN s.body \ s.typed : Given(s.body, n, s.of)'
      BY <2>2 DEF Given
    <2>4. (starts[j].of # 0 => starts[j].of \in DOMAIN starts /\ starts[starts[j].of].state = "stored")'
      BY <2>1, <2>2
    <2> QED BY <2>1, <2>3, <2>4 DEF StartOK
  <1>6. \A k \in DOMAIN starts' : k \in DOMAIN starts \/ k = j
    BY <1>3
  <1>7. \A k \in DOMAIN starts : k \in DOMAIN starts'
    BY <1>3
  <1>8. \A k \in DOMAIN starts' : StartOK(k)'
    BY <1>4, <1>5, <1>6
  <1> QED BY <1>2, <1>3, <1>7, <1>8

\* Nor when one that was under way is answered.
LEMMA StartAnswered ==
    ASSUME RunInv, NEW k \in DOMAIN starts, starts[k].state = "sent", UNCHANGED published,
           NEW s, starts' = [starts EXCEPT ![k] = s],
           StartFields \subseteq DOMAIN s, s.of = starts[k].of, s.typed = starts[k].typed, s.body = starts[k].body,
           s.state = "stored" => DOMAIN s.values \cap SecretNames(Versions[s.runs]) = {}
    PROVE  /\ \E S : starts' \in Seq(S)
           /\ DOMAIN starts' = DOMAIN starts
           /\ \A j \in DOMAIN starts' : StartOK(j)'
           /\ \A j \in DOMAIN starts : j # k => starts'[j] = starts[j]
           /\ starts'[k] = s
  <1>1. PICK S : starts \in Seq(S)
    BY DEF RunInv
  <1>2. starts' \in Seq(S \cup {s})
    BY <1>1
  <1>3. DOMAIN starts' = DOMAIN starts /\ starts'[k] = s /\ \A j \in DOMAIN starts : j # k => starts'[j] = starts[j]
    OBVIOUS
  <1>4. \A j \in DOMAIN starts : starts[j].state = "stored" => starts'[j] = starts[j]
    BY <1>3
  <1>5. ASSUME NEW j \in DOMAIN starts, j # k PROVE StartOK(j)'
    BY <1>3, <1>4, <1>5 DEF RunInv, StartOK, Given
  <1>6. StartOK(k)'
    BY <1>3, <1>4 DEF RunInv, StartOK, Given
  <1> QED BY <1>2, <1>3, <1>5, <1>6
\* The dialog is left as it is by a step that keeps the shown Run.
LEMMA DialogStays ==
    ASSUME RunInv, UNCHANGED <<dialog, entry, typedIn, shown>>,
           \A k \in DOMAIN starts : starts[k].state = "stored" => starts'[k] = starts[k]
    PROVE  DialogOK'
  BY DEF RunInv, DialogOK, Given

LEMMA BeginAnswersKeeps == ASSUME RunInv, NEW k \in DOMAIN begins, BeginAnswers(k) PROVE RunInv'
  <1> DEFINE v == begins[k]
             s == startBody("start", v, <<>>, {}, 0)
  <1>1. shown = 0 /\ shown' = 0 /\ published' = published
    BY DEF BeginAnswers
  <1>2. CASE needsValueGrid(v)
    <2>1. UNCHANGED starts /\ dialog' = [by |-> "start", version |-> v] /\ entry' = initialRow(v)
      BY <1>2 DEF BeginAnswers
    <2>2. \A n : Cell(initialRow(v), n) = Blank
      BY DEF initialRow, emptyRow, Cell
    <2>3. DialogOK'
      BY <2>1, <2>2 DEF DialogOK, Given
    <2>4. \A j \in DOMAIN starts' : StartOK(j)'
      BY <1>1, <2>1 DEF RunInv, StartOK, Given
    <2> QED BY <1>1, <2>1, <2>3, <2>4 DEF RunInv
  <1>3. CASE ~needsValueGrid(v)
    <2>1. starts' = Append(starts, s) /\ UNCHANGED <<dialog, entry, typedIn>>
      BY <1>3 DEF BeginAnswers
    <2>2. DOMAIN <<>> = {}
      OBVIOUS
    <2>3. \A n : Cell(<<>>, n) = Blank
      BY <2>2 DEF Cell
    <2>4. /\ StartFields \subseteq DOMAIN s /\ s.state = "sent" /\ s.of = 0
          /\ \A n \in DOMAIN s.body : Cell(s.body, n) = Blank
      BY <2>3, BodyIs
    <2>5. \A n \in DOMAIN s.body \ s.typed : Given(s.body, n, s.of)
      BY <2>4 DEF Given
    <2> HIDE DEF s
    <2>6. /\ \E S : starts' \in Seq(S)
          /\ \A j \in DOMAIN starts' : StartOK(j)'
          /\ \A j \in DOMAIN starts : j \in DOMAIN starts' /\ starts'[j] = starts[j]
      BY <1>1, <2>1, <2>4, <2>5, StartAdded
    <2>7. DialogOK'
      BY <1>1, <2>1, <2>6, DialogStays
    <2> QED BY <1>1, <2>6, <2>7 DEF RunInv
  <1> QED BY <1>2, <1>3

LEMMA EnterKeeps == ASSUME RunInv, EnterValue PROVE RunInv'
  <1>1. PICK n, v : /\ entry' = setCell(entry, Versions[dialog.version], n, v)
                    /\ typedIn' = typedIn \cup {n}
    BY DEF EnterValue
  <1>2. dialog # None /\ UNCHANGED <<dialog, starts, shown, published>>
    BY DEF EnterValue
  <1>3. \A m : m # n => Cell(entry', m) = Cell(entry, m)
    BY <1>1, SetCellIs
  <1>4. DialogOK'
    BY <1>1, <1>2, <1>3 DEF RunInv, DialogOK, Given
  <1>5. \A j \in DOMAIN starts' : StartOK(j)'
    BY <1>2 DEF RunInv, StartOK, Given
  <1> QED BY <1>2, <1>4, <1>5 DEF RunInv

LEMMA SubmitKeeps == ASSUME RunInv, SubmitRun PROVE RunInv'
  <1> DEFINE of == IF dialog.by = "again" THEN shown ELSE 0
             s == startBody(dialog.by, dialog.version, entry, typedIn, of)
  <1>1. dialog # None /\ UNCHANGED <<dialog, entry, typedIn, shown, published>> /\ starts' = Append(starts, s)
    BY DEF SubmitRun
  <1>2. /\ StartFields \subseteq DOMAIN s /\ s.state = "sent" /\ s.of = of /\ s.typed = typedIn
        /\ DOMAIN s.body = PlainNames(Versions[dialog.version])
        /\ \A n \in DOMAIN s.body : Cell(s.body, n) = Cell(entry, n)
    BY BodyIs
  <1>3. \A n \in DOMAIN s.body \ s.typed : Given(s.body, n, s.of)
    BY <1>1, <1>2 DEF RunInv, DialogOK, Given
  <1>4. s.of # 0 => s.of \in DOMAIN starts /\ starts[s.of].state = "stored"
    BY <1>1, <1>2 DEF RunInv, DialogOK
  <1> HIDE DEF s
  <1>5. /\ \E S : starts' \in Seq(S)
        /\ \A j \in DOMAIN starts' : StartOK(j)'
        /\ \A j \in DOMAIN starts : j \in DOMAIN starts' /\ starts'[j] = starts[j]
    BY <1>1, <1>2, <1>3, <1>4, StartAdded
  <1>6. DialogOK'
    BY <1>1, <1>5, DialogStays
  <1> QED BY <1>1, <1>5, <1>6 DEF RunInv

LEMMA AgainKeeps == ASSUME RunInv, RunAgainDialog PROVE RunInv'
  <1>1. /\ shown # 0 /\ UNCHANGED <<starts, shown, published>>
        /\ dialog' = [by |-> "again", version |-> starts[shown].runs] /\ entry' = runAgainValues(shown)
    BY DEF RunAgainDialog
  <1>2. \A n \in PlainNames(Versions[starts[shown].runs]) :
            Cell(runAgainValues(shown), n) = Cell(starts[shown].values, n)
    BY DEF runAgainValues, Cell
  <1>3. DialogOK'
    BY <1>1, <1>2 DEF DialogOK, Given
  <1>4. \A j \in DOMAIN starts' : StartOK(j)'
    BY <1>1 DEF RunInv, StartOK, Given
  <1> QED BY <1>1, <1>3, <1>4 DEF RunInv

LEMMA StartKeeps == ASSUME RunInv, NEW k \in DOMAIN starts, start_run(k) PROVE RunInv'
  <1> DEFINE t == starts[k]
             values == workflow_to_run(t.body)
             stored == [t EXCEPT !.state = "stored", !.runs = published, !.values = values]
             refused == [t EXCEPT !.state = "refused"]
  <1>1. /\ t.state = "sent" /\ UNCHANGED <<entry, typedIn, published>>
        /\ \E s \in {stored, refused} : starts' = [starts EXCEPT ![k] = s]
    BY DEF start_run, Opened, Refused
  <1>2. /\ (starts' = [starts EXCEPT ![k] = stored] /\ dialog' = None /\ shown' = k)
           \/ UNCHANGED <<dialog, shown>>
    BY DEF start_run, Opened, Refused
  <1>3. {"by", "version", "body", "typed", "of", "state", "runs", "values"} \subseteq DOMAIN t
    BY DEF RunInv, StartOK, StartFields, startBody
  <1>4. DOMAIN values \cap SecretNames(Versions[published]) = {}
    BY DeclaredApart DEF RunInv, workflow_to_run, stored_variables, public_variable_names, Declared
  <1>5. PICK s \in {stored, refused} : starts' = [starts EXCEPT ![k] = s]
    BY <1>1
  <1> HIDE DEF values
  <1>6. /\ DOMAIN s = DOMAIN t /\ s.of = t.of /\ s.typed = t.typed /\ s.body = t.body
        /\ s.state = "stored" => s.runs = published /\ s.values = values
    BY <1>3
  <1>7. StartFields \subseteq DOMAIN s
    BY <1>6 DEF RunInv, StartOK
  <1>8. s.state = "stored" => DOMAIN s.values \cap SecretNames(Versions[s.runs]) = {}
    BY <1>4, <1>6
  <1>9. /\ \E S : starts' \in Seq(S)
        /\ DOMAIN starts' = DOMAIN starts
        /\ \A j \in DOMAIN starts' : StartOK(j)'
        /\ \A j \in DOMAIN starts : j # k => starts'[j] = starts[j]
        /\ starts'[k] = s
    BY <1>1, <1>5, <1>6, <1>7, <1>8, StartAnswered
  <1>10. CASE UNCHANGED <<dialog, shown>>
    <2>1. \A j \in DOMAIN starts : starts[j].state = "stored" => starts'[j] = starts[j]
      BY <1>1, <1>9
    <2>2. DialogOK'
      BY <1>1, <1>10, <2>1, DialogStays
    <2> QED BY <1>1, <1>9, <1>10, <2>1, <2>2 DEF RunInv
  <1>11. CASE starts' = [starts EXCEPT ![k] = stored] /\ dialog' = None /\ shown' = k
    <2>1. starts'[k].state = "stored"
      BY <1>3, <1>11
    <2>2. DialogOK'
      BY <1>11 DEF DialogOK
    <2> QED BY <1>1, <1>9, <1>11, <2>1, <2>2 DEF RunInv
  <1> QED BY <1>2, <1>10, <1>11

LEMMA RunKeeps == ASSUME RunInv, [Next]_vars PROVE RunInv'
  <1>1. CASE UNCHANGED <<starts, shown, dialog, entry, typedIn, published>>
    BY <1>1 DEF RunInv, StartOK, DialogOK, Given
  <1>2. CASE Publish /\ UNCHANGED runVars
    <2>1. published' \in 1 .. Len(Versions)
      BY <1>2, VersionsAssumption DEF Publish, RunInv
    <2>2. (\A k \in DOMAIN starts : StartOK(k))' /\ DialogOK'
      BY <1>2 DEF runVars, RunInv, StartOK, DialogOK, Given
    <2> QED BY <1>2, <2>1, <2>2 DEF runVars, RunInv
  <1>3. CASE closeDialog
    <2>1. dialog' = None /\ UNCHANGED <<starts, shown, published>>
      BY <1>3 DEF closeDialog
    <2>2. (\A k \in DOMAIN starts : StartOK(k))' /\ DialogOK'
      BY <2>1 DEF RunInv, StartOK, DialogOK, Given
    <2> QED BY <2>1, <2>2 DEF RunInv
  <1>4. CASE RunFormNext
    BY <1>1, <1>3, <1>4, BeginAnswersKeeps, EnterKeeps, SubmitKeeps, AgainKeeps, StartKeeps
    DEF RunFormNext, begin, BeginFails
  <1>5. BatchFormNext \/ ScheduleFormNext \/ AccountsNext => UNCHANGED published
    <2>1. BatchFormNext => UNCHANGED published
      BY DEF BatchFormNext, OpenGrid, TypeCell, AddRow, TickAnyway, Paste, Copy, CopyAnswers, ChooseFile, landCsv,
             Assign, confirmImport, FoldSummary, ChangeMapping, Edits, Focus, ClickCreate, fillAdded,
             loadPublishedVariables, CheckAnswers, CheckFails, create_batch
    <2>2. ScheduleFormNext => UNCHANGED published
      BY DEF ScheduleFormNext, Elsewhere, handle_due, RunEnds, OpenList, fetchSchedulePage, ListArrives,
             getSchedule, Expand, ClickToggle, Lists, patchEnabled, ToggleAnswers, ClickRunNow, run_schedule_now,
             RunNowAnswers, OpenForm, DocumentArrives, InstanceArrives, DetailArrives, ChoosePreset, TypeCron,
             WriteCron, BackToSentence, PickFrequency, PickNumber, PickTime, Says, PickZone, TypeValue,
             TickEnabled, FillFromLastRun, Edits_, submit, SaveCommits, SaveAnswers
    <2>3. AccountsNext => UNCHANGED published
      <3>1. CASE AwayRoles \/ AwayOffers \/ AwayEnds \/ Expires
        BY <3>1 DEF AwayRoles, AwayOffers, AwayEnds, Away, Expires
      <3>2. CASE askForCode \/ UseADifferentEmail \/ signIn
        BY <3>2 DEF askForCode, UseADifferentEmail, signIn
      <3>3. CASE getCurrentAccount \/ MeArrives \/ readPanel \/ PanelArrives
        BY <3>3 DEF getCurrentAccount, MeArrives, readPanel, PanelArrives
      <3>4. CASE Navigate \/ LookAgain \/ ChooseOrganization
        BY <3>4 DEF Navigate, LookAgain, ChooseOrganization, Goes
      <3>5. CASE MembersPage \/ GeneralPage \/ InvitationsPage \/ PendingInvitations \/ AccountPage \/ UserMenu
        BY <3>5 DEF MembersPage, GeneralPage, NameCard, HandItOn, EndIt, InvitationsPage,
                    PendingInvitations, AccountPage, EverySession, DangerZone, UserMenu, Sends
      <3>6. CASE \E k \in DOMAIN asks : CommitAsk(k) \/ AskAnswers(k)
        BY <3>6 DEF CommitAsk, AskAnswers
      <3> QED BY <3>1, <3>2, <3>3, <3>4, <3>5, <3>6 DEF AccountsNext
    <2> QED BY <2>1, <2>2, <2>3
  <1> QED BY <1>1, <1>2, <1>4, <1>5 DEF Next, vars, runVars

LEMMA RunStarts == Init => RunInv
  <1> SUFFICES ASSUME Init PROVE RunInv
    OBVIOUS
  <1>1. published \in 1 .. Len(Versions)
    BY VersionsAssumption DEF Init, BaseInit
  <1>2. starts \in Seq({}) /\ DOMAIN starts = {}
    BY DEF Init, RunFormInit
  <1> QED BY <1>1, <1>2 DEF Init, RunFormInit, RunInv, DialogOK

LEMMA RunSays == RunInv => OwnValues /\ VaultNotStored
  <1> SUFFICES ASSUME RunInv PROVE OwnValues /\ VaultNotStored
    OBVIOUS
  <1>1. OwnValues
    BY DEF RunInv, StartOK, Given, OwnValues, Cell
  <1>2. VaultNotStored
    BY DEF RunInv, StartOK, VaultNotStored
  <1> QED BY <1>1, <1>2

(* Every value that is stored was given for its Variable, for any files,   *)
(* any Versions published meanwhile, and any number of requests: landCsv   *)
(* takes a column only where one column and one Variable answer each       *)
(* other, a form that is sent has no blank (submit), the dialog of a Run   *)
(* begins with initialRows or runAgainValues, and workflow_to_run keeps    *)
(* the plain Variables of the Version that runs.                           *)
THEOREM ValuesGiven == Spec => ValuesAsGiven
  <1>1. Spec => [](OwnValues /\ VaultNotStored)
    BY RunStarts, RunKeeps, RunSays, PTL DEF Spec
  <1> QED BY <1>1, LandsOwn, SavesWhole, PTL DEF ValuesAsGiven
=============================================================================

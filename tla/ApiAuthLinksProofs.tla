--------------------------- MODULE ApiAuthLinksProofs ---------------------------
(***************************************************************************)
(* Proofs about ApiAuth: how many magic links are spent for no session.    *)
(*                                                                         *)
(* A link is stranded when the last request that holds it ends without a   *)
(* session: when the request is dropped, or when it finds its user         *)
(* registered by another request.  The requests that can still come to     *)
(* that are `Late(e)`: they have looked for the user before he was there,  *)
(* and the request that registered him is never one of them.               *)
(***************************************************************************)
EXTENDS ApiAuthProofs, FiniteSetTheorems

USE NoneAssumption, ItemsAssumption, BoundsAssumption

\* Requests whose INSERT of user e will fail, if e is registered.
Late(e) == {c \in Slots : req[c].at = "createUser" /\ req[c].user = e}

LinksBound(e) ==
  /\ IsFiniteSet(Stranded(e))
  /\ e \notin users => Cardinality(Stranded(e)) <= faults
  /\ e \in users =>
       Cardinality(Stranded(e)) + Cardinality(Late(e)) <= faults + Cardinality(Slots) - 1

LInv == \A e \in Emails : LinksBound(e)

-----------------------------------------------------------------------------
(* Counting                                                                *)

LEMMA LateIsFinite ==
  /\ IsFiniteSet(Slots) /\ Cardinality(Slots) \in Nat
  /\ \A e : IsFiniteSet(Late(e)) /\ Cardinality(Late(e)) \in Nat
  /\ \A e : IsFiniteSet(Late(e)') /\ Cardinality(Late(e)') \in Nat
<1>1. \A e : Late(e) \subseteq Slots /\ Late(e)' \subseteq Slots
  BY DEF Late
<1> QED BY <1>1, SlotsAssumption, FS_Subset, FS_CardinalityType

LEMMA OneMoreAtMost ==
  ASSUME NEW S, IsFiniteSet(S), NEW x, NEW T \in SUBSET (S \cup {x})
  PROVE  /\ IsFiniteSet(T) /\ Cardinality(T) <= Cardinality(S) + 1
         /\ Cardinality(T) \in Nat /\ Cardinality(S) \in Nat
<1>1. Cardinality(S) \in Nat
  BY FS_CardinalityType
<1>2. /\ IsFiniteSet(S \cup {x})
      /\ Cardinality(S \cup {x}) = IF x \in S THEN Cardinality(S) ELSE Cardinality(S) + 1
  BY FS_AddElement
<1>3. IsFiniteSet(T) /\ Cardinality(T) <= Cardinality(S \cup {x})
  BY <1>2, FS_Subset
<1>4. Cardinality(T) \in Nat /\ Cardinality(S \cup {x}) \in Nat
  BY <1>2, <1>3, FS_CardinalityType
<1> QED BY <1>1, <1>2, <1>3, <1>4

\* Nothing is stranded, and nobody more is late.
LEMMA NothingStranded ==
  ASSUME NEW e, LinksBound(e), Stranded(e)' \subseteq Stranded(e),
         faults \in Nat, faults' \in Nat, faults <= faults',
         e \notin users' \/ (e \in users /\ Late(e)' \subseteq Late(e)),
         users \subseteq users'
  PROVE  LinksBound(e)'
<1>1. /\ IsFiniteSet(Stranded(e)') /\ Cardinality(Stranded(e)') <= Cardinality(Stranded(e))
      /\ Cardinality(Stranded(e)') \in Nat /\ Cardinality(Stranded(e)) \in Nat
  BY FS_Subset, FS_CardinalityType DEF LinksBound
<1>2. Late(e)' \subseteq Late(e) => Cardinality(Late(e)') <= Cardinality(Late(e))
  BY LateIsFinite, FS_Subset
<1> QED BY <1>1, <1>2, LateIsFinite DEF LinksBound

\* The user is registered, by a request that is not late itself.
LEMMA UserRegistered ==
  ASSUME NEW e, LinksBound(e), Stranded(e)' \subseteq Stranded(e), faults \in Nat, faults' = faults,
         e \notin users, e \in users', NEW c \in Slots, c \notin Late(e)'
  PROVE  LinksBound(e)'
<1>1. /\ IsFiniteSet(Stranded(e)') /\ Cardinality(Stranded(e)') <= Cardinality(Stranded(e))
      /\ Cardinality(Stranded(e)') \in Nat /\ Cardinality(Stranded(e)) \in Nat
  BY FS_Subset, FS_CardinalityType DEF LinksBound
<1>2. IsFiniteSet(Slots \ {c}) /\ Cardinality(Slots \ {c}) = Cardinality(Slots) - 1
  BY LateIsFinite, FS_RemoveElement
<1>3. Late(e)' \subseteq Slots \ {c}
  BY DEF Late
<1>4. Cardinality(Late(e)') <= Cardinality(Slots) - 1
  BY <1>2, <1>3, FS_Subset
<1> QED BY <1>1, <1>4, LateIsFinite DEF LinksBound

\* One link is stranded by a late request.
LEMMA LateStrands ==
  ASSUME NEW e, LinksBound(e), NEW l, Stranded(e)' \subseteq Stranded(e) \cup {l},
         faults \in Nat, faults' = faults, e \in users, e \in users',
         NEW c \in Late(e), Late(e)' \subseteq Late(e) \ {c}
  PROVE  LinksBound(e)'
<1>1. /\ IsFiniteSet(Stranded(e)') /\ Cardinality(Stranded(e)') <= Cardinality(Stranded(e)) + 1
      /\ Cardinality(Stranded(e)') \in Nat /\ Cardinality(Stranded(e)) \in Nat
  BY OneMoreAtMost DEF LinksBound
<1>2. IsFiniteSet(Late(e) \ {c}) /\ Cardinality(Late(e) \ {c}) = Cardinality(Late(e)) - 1
  BY LateIsFinite, FS_RemoveElement
<1>3. Cardinality(Late(e)') <= Cardinality(Late(e)) - 1
  BY <1>2, FS_Subset
<1> QED BY <1>1, <1>3, LateIsFinite DEF LinksBound

\* One link is stranded by a dropped request.
LEMMA DroppedStrands ==
  ASSUME NEW e, LinksBound(e), NEW l, Stranded(e)' \subseteq Stranded(e) \cup {l},
         faults \in Nat, faults' = faults + 1, users' = users, Late(e)' \subseteq Late(e)
  PROVE  LinksBound(e)'
<1>1. /\ IsFiniteSet(Stranded(e)') /\ Cardinality(Stranded(e)') <= Cardinality(Stranded(e)) + 1
      /\ Cardinality(Stranded(e)') \in Nat /\ Cardinality(Stranded(e)) \in Nat
  BY OneMoreAtMost DEF LinksBound
<1>2. Cardinality(Late(e)') <= Cardinality(Late(e))
  BY LateIsFinite, FS_Subset
<1> QED BY <1>1, <1>2, LateIsFinite DEF LinksBound

-----------------------------------------------------------------------------
(* What a step strands                                                     *)

\* Only the requests of C change.  They strand no link but those they held.
LEMMA OnlyHeldAreStranded ==
  ASSUME IInv, NEW e, NEW C, \A d \in Slots \ C : req'[d] = req[d],
         \A s \in Sessions : sessions'[s].origin = sessions[s].origin \/ sessions[s] = NoSession,
         \A l \in Links : links'[l] = [status |-> "used", email |-> e] =>
           \/ links[l] = [status |-> "used", email |-> e]
           \/ \E d \in Slots : req'[d].item = l
  PROVE  /\ \A l \in Stranded(e)' \ Stranded(e) :
              \E d \in Slots \cap C : req[d].item = l /\ req'[d].item # l
         /\ Late(e)' \subseteq Late(e) \cup {d \in Slots \cap C : req'[d].at = "createUser"}
<1>1. ASSUME NEW l \in Stranded(e)', l \notin Stranded(e)
      PROVE  \E d \in Slots \cap C : req[d].item = l /\ req'[d].item # l
  <2>1. /\ l \in Links /\ links'[l] = [status |-> "used", email |-> e]
        /\ \A s \in Sessions : sessions'[s].origin # l
        /\ \A d \in Slots : req'[d].item # l
    BY <1>1 DEF Stranded, OpenedWith
  <2>2. links[l] = [status |-> "used", email |-> e]
    BY <2>1
  <2>3. \A s \in Sessions : sessions[s].origin # l
    BY <2>1 DEF NoSession
  <2>4. PICK d \in Slots : req[d].item = l
    BY <1>1, <2>1, <2>2, <2>3 DEF Stranded, OpenedWith
  <2> QED BY <2>1, <2>4
<1>2. Late(e)' \subseteq Late(e) \cup {d \in Slots \cap C : req'[d].at = "createUser"}
  BY DEF Late
<1> QED BY <1>1, <1>2

\* At the other statements a request holds no link.
LEMMA HoldsNoLink ==
  ASSUME IInv, NEW c \in Slots, req[c].at \notin {"spendLink", "findUser", "createUser", "openSession"}
  PROVE  req[c].item \notin Links
<1>1. req[c] \in Requests /\ Fits(c)
  BY Request
<1> QED BY <1>1 DEF Requests, Places, Fits

\* A request that keeps its link or holds none, and does not become late.
LEMMA RequestStrandsNothing ==
  ASSUME IInv, NEW e \in Emails, LinksBound(e), NEW c \in Slots,
         \A d \in Slots \ {c} : req'[d] = req[d],
         req[c].item \in Links => req'[c].item = req[c].item,
         req'[c].at = "createUser" => e \notin users' \/ req'[c].user # e,
         users' = users, faults' = faults,
         \A s \in Sessions : sessions'[s].origin = sessions[s].origin \/ sessions[s] = NoSession,
         \A l \in Links : links'[l] = [status |-> "used", email |-> e] =>
           links[l] = [status |-> "used", email |-> e] \/ req'[c].item = l
  PROVE  LinksBound(e)'
<1>0. \A l \in Links : links'[l] = [status |-> "used", email |-> e] =>
        \/ links[l] = [status |-> "used", email |-> e]
        \/ \E d \in Slots : req'[d].item = l
  OBVIOUS
<1>1. faults \in Nat
  BY DEF IInv, TypeOK
<1>2. /\ \A l \in Stranded(e)' \ Stranded(e) :
           \E d \in Slots \cap {c} : req[d].item = l /\ req'[d].item # l
      /\ Late(e)' \subseteq Late(e) \cup {d \in Slots \cap {c} : req'[d].at = "createUser"}
  BY <1>0, OnlyHeldAreStranded
<1>3. Stranded(e)' \subseteq Stranded(e)
  BY <1>2 DEF Stranded
<1>4. e \in users => Late(e)' \subseteq Late(e)
  BY <1>2 DEF Late
<1> QED BY <1>1, <1>3, <1>4, NothingStranded

LEMMA SpendLinkStrands ==
  ASSUME IInv, LInv, NEW c \in Slots, SpendLink(c), NEW e \in Emails PROVE LinksBound(e)'
<1>1. req[c] \in Requests /\ req \in [Slots -> Requests] /\ req[c].item \in Links
  BY Request DEF SpendLink, At, Fits
<1>2. /\ req'[c].item = req[c].item /\ req'[c].at = "findUser"
      /\ \A d \in Slots \ {c} : req'[d] = req[d]
  BY <1>1 DEF SpendLink, Goes, Requests
<1>3. \A l \in Links : l # req[c].item => links'[l] = links[l]
  BY <1>1 DEF SpendLink, IInv, TypeOK
<1> QED BY <1>2, <1>3, RequestStrandsNothing DEF SpendLink, LInv

LEMMA FindUserStrands ==
  ASSUME IInv, LInv, NEW c \in Slots, FindUser(c), NEW e \in Emails PROVE LinksBound(e)'
<1>1. req[c] \in Requests /\ req \in [Slots -> Requests]
  BY Request
<1>2. /\ req'[c].item = req[c].item /\ req'[c].user = req[c].user
      /\ req'[c].at = "createUser" => req[c].user \notin users
      /\ \A d \in Slots \ {c} : req'[d] = req[d]
  BY <1>1 DEF FindUser, Goes, AfterLookup, Requests
<1> QED BY <1>2, RequestStrandsNothing DEF FindUser, LInv

LEMMA CreateUserStrands ==
  ASSUME IInv, LInv, NEW c \in Slots, CreateUser(c), NEW e \in Emails PROVE LinksBound(e)'
<1> DEFINE l == req[c].item
           u == req[c].user
<1>0. faults \in Nat /\ faults' = faults /\ users' = users \cup {u}
      /\ links' = links /\ sessions' = sessions
  BY DEF CreateUser, IInv, TypeOK
<1>1. /\ req[c] \in Requests /\ req \in [Slots -> Requests] /\ req[c].at = "createUser"
      /\ l \in Links /\ links[l].email = u
  BY Request DEF CreateUser, At, Fits
<1>2. \A d \in Slots \ {c} : req'[d] = req[d]
  BY <1>1 DEF CreateUser, Goes
<1>3. IF u \in users THEN req'[c] = Idle ELSE req'[c].item = l /\ req'[c].at = "openSession"
  BY <1>1 DEF CreateUser, Goes, Requests
<1>4. req'[c].at # "createUser"
  BY <1>3 DEF Idle
<1>5. /\ \A k \in Stranded(e)' \ Stranded(e) :
           \E d \in Slots \cap {c} : req[d].item = k /\ req'[d].item # k
      /\ Late(e)' \subseteq Late(e) \cup {d \in Slots \cap {c} : req'[d].at = "createUser"}
  BY <1>0, <1>2, OnlyHeldAreStranded
<1>6. Late(e)' \subseteq Late(e) \ {c}
  BY <1>4, <1>5 DEF Late
<1>7. Stranded(e)' \subseteq Stranded(e) \cup {l}
  BY <1>5
<1>8. u \notin users \/ e # u => Stranded(e)' \subseteq Stranded(e)
  BY <1>0, <1>1, <1>3, <1>5 DEF Stranded
<1>9. CASE u \in users /\ e = u
  <2>1. c \in Late(e)
    BY <1>1, <1>9 DEF Late
  <2> QED BY <1>0, <1>6, <1>7, <1>9, <2>1, LateStrands DEF LInv
<1>10. CASE u \notin users /\ e = u
  BY <1>0, <1>6, <1>8, <1>10, UserRegistered DEF LInv
<1>11. CASE e # u
  BY <1>0, <1>6, <1>8, <1>11, NothingStranded DEF LInv
<1> QED BY <1>9, <1>10, <1>11

LEMMA OpenSessionStrands ==
  ASSUME IInv, LInv, NEW c \in Slots, NEW s \in FreshSessions, OpenSession(c, s), NEW e \in Emails
  PROVE  LinksBound(e)'
<1>1. req[c] \in Requests /\ req \in [Slots -> Requests]
  BY Request
<1>2. /\ req'[c].at # "createUser" /\ (req[c].item \in Challenges \/ req'[c] = Idle)
      /\ \A d \in Slots \ {c} : req'[d] = req[d]
  BY <1>1 DEF OpenSession, Goes, Requests, Idle
<1>3. /\ faults \in Nat /\ faults' = faults /\ users' = users /\ links' = links
      /\ s \in Sessions /\ sessions'[s].origin = req[c].item
      /\ \A t \in Sessions : sessions'[t].origin = sessions[t].origin \/ sessions[t] = NoSession
  BY DEF OpenSession, IInv, TypeOK, FreshSessions
<1>4. /\ \A k \in Stranded(e)' \ Stranded(e) :
           \E d \in Slots \cap {c} : req[d].item = k /\ req'[d].item # k
      /\ Late(e)' \subseteq Late(e) \cup {d \in Slots \cap {c} : req'[d].at = "createUser"}
  BY <1>2, <1>3, OnlyHeldAreStranded
<1>5. req[c].item \notin Stranded(e)'
  BY <1>3 DEF Stranded, OpenedWith
<1>6. Stranded(e)' \subseteq Stranded(e) /\ Late(e)' \subseteq Late(e)
  BY <1>2, <1>4, <1>5
<1> QED BY <1>3, <1>6, NothingStranded DEF LInv

LEMMA DroppedStrandsOne ==
  ASSUME IInv, LInv, NEW c \in Slots, Dropped(c), NEW e \in Emails PROVE LinksBound(e)'
<1>1. req \in [Slots -> Requests] /\ faults \in Nat
  BY Request
<1>2. /\ \A d \in Slots \ {c} : req'[d] = req[d] /\ req'[c] = Idle
      /\ faults' = faults + 1 /\ users' = users /\ links' = links /\ sessions' = sessions
  BY <1>1 DEF Dropped, Goes
<1>3. req'[c].at # "createUser"
  BY <1>1 DEF Dropped, Goes, Idle
<1>4. /\ \A k \in Stranded(e)' \ Stranded(e) :
           \E d \in Slots \cap {c} : req[d].item = k /\ req'[d].item # k
      /\ Late(e)' \subseteq Late(e) \cup {d \in Slots \cap {c} : req'[d].at = "createUser"}
  BY <1>2, OnlyHeldAreStranded
<1>5. Stranded(e)' \subseteq Stranded(e) \cup {req[c].item} /\ Late(e)' \subseteq Late(e)
  BY <1>3, <1>4
<1> QED BY <1>1, <1>2, <1>5, DroppedStrands DEF LInv

LEMMA RegisterStrands ==
  ASSUME IInv, LInv, NEW c \in Slots, Register(c), NEW e \in Emails PROVE LinksBound(e)'
<1> DEFINE u == req[c].user
<1>1. req \in [Slots -> Requests] /\ faults \in Nat /\ req[c].item \notin Links
  BY Request, HoldsNoLink DEF Register, At
<1>2. /\ \A d \in Slots \ {c} : req'[d] = req[d]
      /\ req'[c].at # "createUser"
      /\ faults' = faults /\ users' = users \cup {u} /\ links' = links /\ sessions' = sessions
  BY <1>1 DEF Register, Goes, Idle
<1>3. /\ \A k \in Stranded(e)' \ Stranded(e) :
           \E d \in Slots \cap {c} : req[d].item = k /\ req'[d].item # k
      /\ Late(e)' \subseteq Late(e) \cup {d \in Slots \cap {c} : req'[d].at = "createUser"}
  BY <1>2, OnlyHeldAreStranded
<1>4. Stranded(e)' \subseteq Stranded(e)
  BY <1>1, <1>3 DEF Stranded
<1>5. Late(e)' \subseteq Late(e) \ {c}
  BY <1>2, <1>3 DEF Late
<1>6. CASE e = u /\ e \notin users
  BY <1>1, <1>2, <1>4, <1>5, <1>6, UserRegistered DEF LInv
<1>7. CASE e # u \/ e \in users
  BY <1>1, <1>2, <1>4, <1>5, <1>7, NothingStranded DEF LInv
<1> QED BY <1>6, <1>7

\* Statements of requests that hold no link, and touch neither links nor users.
LEMMA OthersStrandNothing ==
  ASSUME IInv, LInv, NEW c \in Slots, NEW e \in Emails,
         \/ Purge(c) \/ RevokeSession(c) \/ RevokeOthers(c)
         \/ \E ch \in FreshChallenges : StartRegistration(c, ch)
         \/ ReadLatest(c) \/ SavePasskey(c) \/ DeleteChallenge(c)
         \/ Begin(c)
  PROVE  LinksBound(e)'
<1>1. req \in [Slots -> Requests] /\ req[c] \in Requests
  BY Request
<1>2. req[c].item \notin Links
  <2>1. CASE Begin(c)
    BY <2>1, HoldsNoLink DEF Begin, ReadLink, CheckAddress, ReadPassword, ReadChallenge,
                             ReadExpired, Authenticate, At
  <2>2. CASE ~Begin(c)
    BY <2>2, HoldsNoLink DEF Purge, RevokeSession, RevokeOthers, StartRegistration, ReadLatest,
                             SavePasskey, DeleteChallenge, At
  <2> QED BY <2>1, <2>2
<1>3. /\ users' = users /\ links' = links /\ faults' = faults
      /\ \A d \in Slots \ {c} : req'[d] = req[d]
      /\ req'[c].at # "createUser"
  <2>1. CASE Begin(c)
    BY <1>1, <2>1 DEF Begin, ReadLink, CheckAddress, ReadPassword, ReadChallenge,
                      ReadExpired, Authenticate, Goes, Running
  <2>2. CASE ~Begin(c)
    BY <1>1, <2>2 DEF Purge, RevokeSession, RevokeOthers, StartRegistration, ReadLatest,
                      SavePasskey, DeleteChallenge, Goes, Idle, Requests
  <2> QED BY <2>1, <2>2
<1>4. \A s \in Sessions : sessions'[s].origin = sessions[s].origin
  <2>1. ASSUME NEW gone, sessions' = Without(gone)
        PROVE  \A s \in Sessions : sessions'[s].origin = sessions[s].origin
    BY <2>1 DEF Without, IInv, TypeOK
  <2>2. CASE Purge(c) \/ RevokeSession(c) \/ RevokeOthers(c)
    BY <2>1, <2>2 DEF Purge, RevokeSession, RevokeOthers
  <2>3. CASE Begin(c)
    BY <2>3 DEF Begin, ReadLink, CheckAddress, ReadPassword, ReadChallenge, ReadExpired, Authenticate
  <2> QED BY <2>2, <2>3 DEF StartRegistration, ReadLatest, SavePasskey, DeleteChallenge
<1> QED BY <1>2, <1>3, <1>4, RequestStrandsNothing DEF LInv

\* Steps of no request: a new link or challenge, and what time does.
LEMMA TimeStrandsNothing ==
  ASSUME IInv, LInv, NEW e \in Emails,
         \/ \E l \in FreshLinks, x \in Emails : RequestMagicLink(l, x)
         \/ \E ch \in FreshChallenges, x \in Emails : StartLogin(ch, x)
         \/ TimePasses \/ UNCHANGED vars
  PROVE  LinksBound(e)'
<1>1. faults \in Nat
  BY DEF IInv, TypeOK
<1> DEFINE Same == /\ req' = req /\ users' = users /\ faults' = faults
                   /\ \A s \in Sessions : sessions'[s].origin = sessions[s].origin
                   /\ \A l \in Links : links'[l] = [status |-> "used", email |-> e] => links'[l] = links[l]
<1>2. ASSUME NEW l \in Links, NEW r, links' = [links EXCEPT ![l] = r], r.status # "used"
      PROVE  \A k \in Links : links'[k] = [status |-> "used", email |-> e] => links'[k] = links[k]
  BY <1>2 DEF IInv, TypeOK
<1>3. Same
  <2>1. ASSUME NEW l \in Links, NEW x \in Emails, RequestMagicLink(l, x) PROVE Same
    BY <1>2, <2>1 DEF RequestMagicLink
  <2>2. ASSUME NEW l \in Links, LinkExpires(l) PROVE Same
    BY <1>2, <2>2, StatusOf DEF LinkExpires
  <2>3. ASSUME NEW s \in Sessions, SessionExpires(s) PROVE Same
    <3>1. \A t \in Sessions : sessions'[t].origin = sessions[t].origin
      BY <2>3 DEF SessionExpires, IInv, TypeOK
    <3> QED BY <2>3, <3>1 DEF SessionExpires
  <2>4. ASSUME ChallengeExpires \/ \E ch \in Challenges, x \in Emails : StartLogin(ch, x)
        PROVE  Same
    BY <2>4 DEF ChallengeExpires, StartLogin
  <2>5. CASE UNCHANGED vars
    BY <2>5 DEF vars
  <2> HIDE DEF Same
  <2> QED BY <2>1, <2>2, <2>3, <2>4, <2>5 DEF TimePasses, FreshLinks, FreshChallenges
<1>5. /\ \A k \in Stranded(e)' \ Stranded(e) :
           \E d \in Slots \cap {} : req[d].item = k /\ req'[d].item # k
      /\ Late(e)' \subseteq Late(e) \cup {d \in Slots \cap {} : req'[d].at = "createUser"}
  BY <1>3, OnlyHeldAreStranded
<1> QED BY <1>1, <1>3, <1>5, NothingStranded DEF LInv

-----------------------------------------------------------------------------
(* The theorem                                                             *)

\* However logins overlap, a link is lost only with a dropped request, or with
\* a request that finds its user registered behind its back.
THEOREM LostLinksHaveCauses == Spec => []LinksLost
<1>1. Init => LInv
  <2> SUFFICES ASSUME Init, NEW e \in Emails PROVE LinksBound(e)
    BY DEF LInv
  <2>1. Stranded(e) = {}
    BY DEF Init, Stranded, Absent
  <2> QED BY <2>1, FS_EmptySet DEF Init, LinksBound
<1>2. IInv /\ LInv /\ [Next]_vars => LInv'
  <2> SUFFICES ASSUME IInv, LInv, [Next]_vars, NEW e \in Emails PROVE LinksBound(e)'
    BY DEF LInv
  <2>1. ASSUME NEW c \in Slots, Continue(c) PROVE LinksBound(e)'
    BY <2>1, SpendLinkStrands, FindUserStrands, CreateUserStrands, OpenSessionStrands,
       RegisterStrands, OthersStrandNothing DEF Continue
  <2> QED BY <2>1, OthersStrandNothing, DroppedStrandsOne, TimeStrandsNothing DEF Next
<1>3. IInv /\ LInv => LinksLost
  <2> SUFFICES ASSUME IInv, LInv, NEW e \in Emails
               PROVE  Cardinality(Stranded(e)) <=
                        faults + (IF e \in users THEN Cardinality(Slots) - 1 ELSE 0)
    BY DEF LinksLost
  <2>1. Cardinality(Stranded(e)) \in Nat /\ faults \in Nat /\ LinksBound(e)
    BY FS_CardinalityType DEF LinksBound, LInv, IInv, TypeOK
  <2> QED BY <2>1, LateIsFinite DEF LinksBound
<1> QED BY <1>1, <1>2, <1>3, InitHolds, Inductive, PTL DEF Spec

================================================================================

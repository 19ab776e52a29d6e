----------------------- MODULE GithubClientFactoryProofs -----------------------
(***************************************************************************)
(* Proofs about GithubClientFactory for any set of callers, any lifetime   *)
(* of a token that exceeds the refresh buffer, and any clock.              *)
(***************************************************************************)
EXTENDS GithubClientFactory, TLAPS

USE FactoryAssumption

-----------------------------------------------------------------------------
(* The inductive invariant.                                                *)

\* The fields agree whenever no refresh is between its assignments, so that the
\* expiry which callers compare is the expiry of the client they are given.
FieldsAgree ==
  (\A c \in Callers : pc[c] \notin Publishing) =>
    /\ client = cachedToken
    /\ client # Null => tokenExpiry = client

\* What a refresh publishes is the token it was given when it was checked last.
RefreshOK ==
  \A c \in Callers :
    /\ pc[c] = "Create" => client = Null \/ now + RefreshBuffer >= client
    /\ pc[c] \in Publishing => /\ created = checkedAt[c] + Lifetime
                               /\ tokenExpiry = created
    /\ pc[c] = "PublishClient" => cachedToken = created

\* A caller that is not overtaken checked before any refresh that is still
\* publishing, whose client will therefore be valid for it as well.
ChecksPrecede ==
  /\ \A c \in Callers : checkedAt[c] <= now
  /\ \A c, d \in Callers :
       pc[c] = "Return" /\ c \notin overtaken /\ pc[d] \in Publishing =>
         checkedAt[c] <= checkedAt[d]

IInv ==
  /\ TypeOK
  /\ FieldsAgree
  /\ RefreshOK
  /\ ChecksPrecede
  /\ FreshUnlessOvertaken

-----------------------------------------------------------------------------

\* The lock excludes: two callers are not between acquiring and releasing it.
LEMMA Exclusion ==
  ASSUME TypeOK, NEW c \in Callers, NEW d \in Callers, c # d,
         pc[c] \in {"Recheck", "Create"} \cup Publishing
  PROVE  pc[d] \notin {"Recheck", "Create"} \cup Publishing
  BY DEF TypeOK

\* What Goto changes.
LEMMA GotoPc ==
  ASSUME TypeOK, NEW c \in Callers, NEW s, Goto(c, s)
  PROVE  /\ pc'[c] = s
         /\ \A d \in Callers \ {c} : pc'[d] = pc[d]
         /\ s \in {"Idle", "Wait", "Recheck", "Create", "Return"} \cup Publishing =>
              pc' \in [Callers -> {"Idle", "Wait", "Recheck", "Create", "Return"}
                                    \cup Publishing]
  BY DEF TypeOK, Goto

LEMMA InitInvariant == Init => IInv
  BY DEF Init, IInv, TypeOK, FieldsAgree, RefreshOK, ChecksPrecede,
         FreshUnlessOvertaken, Publishing, Null

\* A client that is found fresh, while nothing is being published, is fresh.
LEMMA FreshWhenQuiet ==
  ASSUME IInv, ~Stale, \A c \in Callers : pc[c] \notin Publishing
  PROVE  client > now + RefreshBuffer
  BY DEF IInv, TypeOK, FieldsAgree, Stale

LEMMA CheckInvariant ==
  ASSUME IInv, NEW c \in Callers, Check(c)
  PROVE  IInv'
<1>1. CASE Stale
  <2>1. pc[c] = "Idle" /\ Goto(c, "Wait") /\ UNCHANGED <<now, tokenExpiry,
          cachedToken, client, lock, created, checkedAt, overtaken>>
    BY <1>1 DEF Check
  <2>2. /\ pc'[c] = "Wait" /\ \A d \in Callers \ {c} : pc'[d] = pc[d]
        /\ pc' \in [Callers -> {"Idle", "Wait", "Recheck", "Create", "Return"}
                                    \cup Publishing]
    BY <2>1, GotoPc DEF IInv
  <2> QED BY <2>1, <2>2 DEF IInv, TypeOK, FieldsAgree, RefreshOK, ChecksPrecede,
             FreshUnlessOvertaken, Publishing
<1>2. CASE ~Stale
  <2>1. /\ pc[c] = "Idle" /\ Goto(c, "Return")
        /\ checkedAt' = [checkedAt EXCEPT ![c] = now]
        /\ UNCHANGED <<now, tokenExpiry, cachedToken, client, lock, created>>
        /\ overtaken' = IF \E d \in Callers : pc[d] \in Publishing
                        THEN overtaken \cup {c} ELSE overtaken \ {c}
    BY <1>2 DEF Check, FoundFresh
  <2>2. /\ pc'[c] = "Return" /\ \A d \in Callers \ {c} : pc'[d] = pc[d]
        /\ pc' \in [Callers -> {"Idle", "Wait", "Recheck", "Create", "Return"}
                                    \cup Publishing]
    BY <2>1, GotoPc DEF IInv
  <2>3. /\ checkedAt' \in [Callers -> Nat] /\ checkedAt'[c] = now
        /\ \A d \in Callers \ {c} : checkedAt'[d] = checkedAt[d]
    BY <2>1 DEF IInv, TypeOK
  <2>4. TypeOK'
    BY <2>1, <2>2, <2>3 DEF IInv, TypeOK, Publishing
  <2>5. FieldsAgree' /\ RefreshOK'
    BY <2>1, <2>2, <2>3 DEF IInv, FieldsAgree, RefreshOK, Publishing
  <2>6. ChecksPrecede'
    BY <2>1, <2>2, <2>3 DEF IInv, TypeOK, ChecksPrecede, Publishing
  <2>7. FreshUnlessOvertaken'
    BY <1>2, <2>1, <2>2, <2>3, FreshWhenQuiet DEF IInv, TypeOK, FreshUnlessOvertaken
  <2> QED BY <2>4, <2>5, <2>6, <2>7 DEF IInv
<1> QED BY <1>1, <1>2

LEMMA AcquireInvariant ==
  ASSUME IInv, NEW c \in Callers, Acquire(c)
  PROVE  IInv'
<1>1. /\ pc[c] = "Wait" /\ lock = Free /\ lock' = c /\ Goto(c, "Recheck")
      /\ UNCHANGED <<now, tokenExpiry, cachedToken, client, created, checkedAt,
                     overtaken>>
  BY DEF Acquire
<1>2. /\ pc'[c] = "Recheck" /\ \A d \in Callers \ {c} : pc'[d] = pc[d]
      /\ pc' \in [Callers -> {"Idle", "Wait", "Recheck", "Create", "Return"}
                                  \cup Publishing]
  BY <1>1, GotoPc DEF IInv
<1> QED BY <1>1, <1>2 DEF IInv, TypeOK, FieldsAgree, RefreshOK, ChecksPrecede,
           FreshUnlessOvertaken, Publishing

LEMMA RecheckInvariant ==
  ASSUME IInv, NEW c \in Callers, Recheck(c)
  PROVE  IInv'
<1>1. pc[c] = "Recheck" /\ UNCHANGED <<now, tokenExpiry, cachedToken, client, created>>
  BY DEF Recheck
<1>2. \A d \in Callers : pc[d] \notin Publishing
  BY <1>1, Exclusion DEF IInv, Publishing
<1>3. CASE Stale
  <2>1. Goto(c, "Create") /\ UNCHANGED <<lock, checkedAt, overtaken>>
    BY <1>3 DEF Recheck
  <2>2. /\ pc'[c] = "Create" /\ \A d \in Callers \ {c} : pc'[d] = pc[d]
        /\ pc' \in [Callers -> {"Idle", "Wait", "Recheck", "Create", "Return"}
                                    \cup Publishing]
    BY <2>1, GotoPc DEF IInv
  <2>3. client = Null \/ now + RefreshBuffer >= client
    BY <1>2, <1>3 DEF IInv, TypeOK, FieldsAgree, Stale
  <2> QED BY <1>1, <2>1, <2>2, <2>3 DEF IInv, TypeOK, FieldsAgree, RefreshOK,
             ChecksPrecede, FreshUnlessOvertaken, Publishing
<1>4. CASE ~Stale
  <2>1. /\ Goto(c, "Return") /\ lock' = Free
        /\ checkedAt' = [checkedAt EXCEPT ![c] = now]
        /\ overtaken' = overtaken \ {c}
    BY <1>4 DEF Recheck, FoundFresh
  <2>2. /\ pc'[c] = "Return" /\ \A d \in Callers \ {c} : pc'[d] = pc[d]
        /\ pc' \in [Callers -> {"Idle", "Wait", "Recheck", "Create", "Return"}
                                    \cup Publishing]
    BY <2>1, GotoPc DEF IInv
  <2>3. /\ checkedAt' \in [Callers -> Nat] /\ checkedAt'[c] = now
        /\ \A d \in Callers \ {c} : checkedAt'[d] = checkedAt[d]
    BY <2>1 DEF IInv, TypeOK
  <2>4. client > now + RefreshBuffer
    BY <1>2, <1>4, FreshWhenQuiet
  <2>5. TypeOK'
    BY <1>1, <2>1, <2>2, <2>3 DEF IInv, TypeOK, Publishing
  <2>6. FieldsAgree' /\ RefreshOK' /\ ChecksPrecede'
    BY <1>1, <1>2, <2>2, <2>3
       DEF IInv, TypeOK, FieldsAgree, RefreshOK, ChecksPrecede, Publishing
  <2>7. FreshUnlessOvertaken'
    BY <1>1, <2>1, <2>2, <2>3, <2>4 DEF IInv, TypeOK, FreshUnlessOvertaken
  <2> QED BY <2>5, <2>6, <2>7 DEF IInv
<1> QED BY <1>3, <1>4

\* Nobody has checked later than the caller that is given a token now.
LEMMA CreateTokenInvariant ==
  ASSUME IInv, NEW c \in Callers, CreateToken(c)
  PROVE  IInv'
<1>1. /\ pc[c] = "Create" /\ Goto(c, "PublishToken")
      /\ created' = now + Lifetime /\ tokenExpiry' = now + Lifetime
      /\ checkedAt' = [checkedAt EXCEPT ![c] = now]
      /\ UNCHANGED <<now, cachedToken, client, lock, overtaken>>
  BY DEF CreateToken
<1>2. /\ pc'[c] = "PublishToken" /\ \A d \in Callers \ {c} : pc'[d] = pc[d]
      /\ pc' \in [Callers -> {"Idle", "Wait", "Recheck", "Create", "Return"}
                                  \cup Publishing]
  BY <1>1, GotoPc DEF IInv, Publishing
<1>3. /\ checkedAt' \in [Callers -> Nat] /\ checkedAt'[c] = now
      /\ \A d \in Callers \ {c} : checkedAt'[d] = checkedAt[d]
  BY <1>1 DEF IInv, TypeOK
<1>4. \A d \in Callers \ {c} : pc[d] \notin {"Recheck", "Create"} \cup Publishing
  BY <1>1, Exclusion DEF IInv
<1>5. TypeOK'
  BY <1>1, <1>2, <1>3 DEF IInv, TypeOK, Publishing
<1>6. FieldsAgree' /\ RefreshOK'
  BY <1>1, <1>2, <1>3, <1>4 DEF IInv, FieldsAgree, RefreshOK, Publishing
<1>7. ChecksPrecede'
  BY <1>1, <1>2, <1>3, <1>4 DEF IInv, TypeOK, ChecksPrecede, Publishing
<1>8. FreshUnlessOvertaken'
  BY <1>1, <1>2, <1>3 DEF IInv, FreshUnlessOvertaken
<1> QED BY <1>5, <1>6, <1>7, <1>8 DEF IInv

\* A refused token leaves the fields as they agreed before.
LEMMA CreateTokenFailsInvariant ==
  ASSUME IInv, NEW c \in Callers, CreateTokenFails(c)
  PROVE  IInv'
<1>1. /\ pc[c] = "Create" /\ Goto(c, "Idle")
      /\ lock' = Free
      /\ UNCHANGED <<now, tokenExpiry, cachedToken, client, created, checkedAt,
                     overtaken>>
  BY DEF CreateTokenFails
<1>2. /\ pc'[c] = "Idle" /\ \A d \in Callers \ {c} : pc'[d] = pc[d]
      /\ pc' \in [Callers -> {"Idle", "Wait", "Recheck", "Create", "Return"}
                                  \cup Publishing]
  BY <1>1, GotoPc DEF IInv, Publishing
<1> QED BY <1>1, <1>2 DEF IInv, TypeOK, FieldsAgree, RefreshOK, ChecksPrecede,
           FreshUnlessOvertaken, Publishing

\* The token is in place before the client.
LEMMA PublishTokenInvariant ==
  ASSUME IInv, NEW c \in Callers, PublishToken(c)
  PROVE  IInv'
<1>1. /\ pc[c] = "PublishToken" /\ Goto(c, "PublishClient")
      /\ cachedToken' = created
      /\ UNCHANGED <<now, tokenExpiry, client, lock, created, checkedAt, overtaken>>
  BY DEF PublishToken
<1>2. /\ pc'[c] = "PublishClient" /\ \A d \in Callers \ {c} : pc'[d] = pc[d]
      /\ pc' \in [Callers -> {"Idle", "Wait", "Recheck", "Create", "Return"}
                                  \cup Publishing]
  BY <1>1, GotoPc DEF IInv, Publishing
<1>3. \A d \in Callers \ {c} : pc[d] \notin {"Recheck", "Create"} \cup Publishing
  BY <1>1, Exclusion DEF IInv, Publishing
<1> QED BY <1>1, <1>2, <1>3 DEF IInv, TypeOK, FieldsAgree, RefreshOK, ChecksPrecede,
           FreshUnlessOvertaken, Publishing

\* The published client is valid for its publisher and for all who checked before.
LEMMA PublishClientInvariant ==
  ASSUME IInv, NEW c \in Callers, PublishClient(c)
  PROVE  IInv'
<1>1. /\ pc[c] = "PublishClient" /\ Goto(c, "Return")
      /\ client' = cachedToken /\ created' = Null /\ lock' = Free
      /\ overtaken' = overtaken \ {c}
      /\ UNCHANGED <<now, tokenExpiry, cachedToken, checkedAt>>
  BY DEF PublishClient
<1>2. /\ pc'[c] = "Return" /\ \A d \in Callers \ {c} : pc'[d] = pc[d]
      /\ pc' \in [Callers -> {"Idle", "Wait", "Recheck", "Create", "Return"}
                                  \cup Publishing]
  BY <1>1, GotoPc DEF IInv, Publishing
<1>3. \A d \in Callers \ {c} : pc[d] \notin {"Recheck", "Create"} \cup Publishing
  BY <1>1, Exclusion DEF IInv, Publishing
<1>4. client' = checkedAt[c] + Lifetime
  BY <1>1 DEF IInv, RefreshOK, Publishing
<1>5. TypeOK'
  BY <1>1, <1>2, <1>3 DEF IInv, TypeOK, Publishing, Null
<1>6. FieldsAgree'
  BY <1>1, <1>2, <1>3 DEF IInv, FieldsAgree, RefreshOK, Publishing
<1>7. RefreshOK' /\ ChecksPrecede'
  BY <1>1, <1>2, <1>3 DEF IInv, TypeOK, RefreshOK, ChecksPrecede, Publishing
<1>8. FreshUnlessOvertaken'
  <2> SUFFICES ASSUME NEW d \in Callers, pc'[d] = "Return", d \notin overtaken'
               PROVE  client' > checkedAt[d] + RefreshBuffer
    BY <1>1 DEF FreshUnlessOvertaken
  <2>1. checkedAt[d] <= checkedAt[c]
    BY <1>1, <1>2 DEF IInv, TypeOK, ChecksPrecede, Publishing
  <2> QED BY <2>1, <1>4 DEF IInv, TypeOK
<1> QED BY <1>5, <1>6, <1>7, <1>8 DEF IInv

\* A caller that is being handed the client changes nothing.
LEMMA ReturnInvariant ==
  ASSUME IInv, NEW c \in Callers, Return(c)
  PROVE  IInv'
<1>1. /\ pc[c] = "Return" /\ Goto(c, "Idle")
      /\ UNCHANGED <<now, tokenExpiry, cachedToken, client, lock, created,
                     checkedAt, overtaken>>
  BY DEF Return
<1>2. /\ pc'[c] = "Idle" /\ \A d \in Callers \ {c} : pc'[d] = pc[d]
      /\ pc' \in [Callers -> {"Idle", "Wait", "Recheck", "Create", "Return"}
                                  \cup Publishing]
  BY <1>1, GotoPc DEF IInv
<1> QED BY <1>1, <1>2 DEF IInv, TypeOK, FieldsAgree, RefreshOK, ChecksPrecede,
           FreshUnlessOvertaken, Publishing

\* Checks stay in the past, and what was stale stays stale.
LEMMA TickInvariant ==
  ASSUME IInv, Tick
  PROVE  IInv'
<1>1. now' = now + 1 /\ UNCHANGED <<pc, tokenExpiry, cachedToken, client, lock,
        created, checkedAt, overtaken>>
  BY DEF Tick
<1> QED BY <1>1 DEF IInv, TypeOK, FieldsAgree, RefreshOK, ChecksPrecede,
           FreshUnlessOvertaken

LEMMA NextInvariant == IInv /\ [Next]_vars => IInv'
<1> SUFFICES ASSUME IInv, [Next]_vars PROVE IInv'
  OBVIOUS
<1>1. CASE UNCHANGED vars
  BY <1>1 DEF vars, IInv, TypeOK, FieldsAgree, RefreshOK, ChecksPrecede,
              FreshUnlessOvertaken
<1>2. CASE Next
  BY <1>2, CheckInvariant, AcquireInvariant, RecheckInvariant,
     CreateTokenInvariant, CreateTokenFailsInvariant, PublishTokenInvariant,
     PublishClientInvariant, ReturnInvariant, TickInvariant
     DEF Next, Continue
<1> QED BY <1>1, <1>2

\* A step that requests a token is CreateToken, whose caller found the fields
\* stale under the lock.
LEMMA TokenNeeded ==
  ASSUME IInv, [Next]_vars, created' # created, created' # Null
  PROVE  client = Null \/ now + RefreshBuffer >= client
<1>1. CASE UNCHANGED vars
  BY <1>1 DEF vars
<1>2. CASE Next
  <2>1. PICK c \in Callers : CreateToken(c)
    BY <1>2 DEF Next, Continue, Check, Acquire, Recheck, CreateTokenFails,
                PublishToken, PublishClient, Return, Tick
  <2> QED BY <2>1 DEF CreateToken, IInv, RefreshOK
<1> QED BY <1>1, <1>2

-----------------------------------------------------------------------------
(* The theorems.                                                           *)

\* The inductive invariant holds throughout.
THEOREM Invariant == Spec => []IInv
<1>1. Init => IInv
  BY InitInvariant
<1>2. IInv /\ [Next]_vars => IInv'
  BY NextInvariant
<1> QED BY <1>1, <1>2, PTL DEF Spec

\* The variables keep their types and TokenLock excludes, for any callers.
THEOREM TypeCorrect == Spec => []TypeOK
<1>1. IInv => TypeOK
  BY DEF IInv
<1> QED BY <1>1, Invariant, PTL

\* However many activities ask for the client and however they interleave with
\* refreshes, a caller is handed one that was valid by the full buffer when it
\* checked, unless its check fell between the assignments of a refresh.
THEOREM HandsOutFreshClients == Spec => []FreshUnlessOvertaken
<1>1. IInv => FreshUnlessOvertaken
  BY DEF IInv
<1> QED BY <1>1, Invariant, PTL

\* No caller that queued up behind a refresh repeats it.
THEOREM RequestsTokensWhenStale == Spec => NoNeedlessToken
<1>1. IInv /\ [Next]_vars =>
        [created' # created /\ created' # Null =>
           client = Null \/ now + RefreshBuffer >= client]_vars
  BY TokenNeeded
<1> QED BY <1>1, Invariant, PTL DEF Spec, NoNeedlessToken

=============================================================================

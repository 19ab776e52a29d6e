------------------------- MODULE GithubClientFactory --------------------------
(***************************************************************************)
(* GitHubClientFactory.GetOrCreateClientAsync: one client shared by all    *)
(* activities, replaced when its installation token nears expiry. The      *)
(* staleness check is made without the lock, and again under it; the       *)
(* fields a refresh publishes are assigned one after the other.            *)
(*                                                                         *)
(* A token is known by the time it expires at, and a client by its token.  *)
(***************************************************************************)
EXTENDS Naturals

CONSTANTS
  Callers,       \* activities that can be in the method at the same time
  RefreshBuffer, \* GitHubClientFactory.RefreshBuffer
  Lifetime,      \* how long GitHub makes an installation token valid
  MaxTime        \* bound: the clock

Null == 0
Free == "free"

\* GitHub's tokens last an hour, the buffer is five minutes.
ASSUME FactoryAssumption ==
  /\ RefreshBuffer \in Nat
  /\ Lifetime \in Nat
  /\ RefreshBuffer < Lifetime
  /\ MaxTime \in Nat
  /\ Free \notin Callers

VARIABLES
  pc,          \* where each caller is in the method
  now,         \* GetUtcNow
  tokenExpiry, \* TokenExpiry
  cachedToken, \* _cachedToken
  client,      \* _singletonClient
  lock,        \* the caller in TokenLock, or Free
  created,     \* the token the caller in the lock has been given
  checkedAt,   \* history: when each caller last found or made it fresh
  overtaken    \* history: callers whose check fell into a publication

vars == <<pc, now, tokenExpiry, cachedToken, client, lock, created,
          checkedAt, overtaken>>

\* Expiry and clients are being assigned: lines 55, 28 and 29 in this order.
Publishing == {"PublishToken", "PublishClient"}

Stale ==
  \/ cachedToken = Null
  \/ client = Null
  \/ now + RefreshBuffer >= tokenExpiry

Goto(c, step) == pc' = [pc EXCEPT ![c] = step]

Init ==
  /\ pc = [c \in Callers |-> "Idle"]
  /\ now = 1
  /\ tokenExpiry = RefreshBuffer
  /\ cachedToken = Null
  /\ client = Null
  /\ lock = Free
  /\ created = Null
  /\ checkedAt = [c \in Callers |-> 0]
  /\ overtaken = {}

FoundFresh(c) ==
  /\ Goto(c, "Return")
  /\ checkedAt' = [checkedAt EXCEPT ![c] = now]

Check(c) ==
  /\ pc[c] = "Idle"
  /\ IF Stale
     THEN Goto(c, "Wait") /\ UNCHANGED <<checkedAt, overtaken>>
     ELSE /\ FoundFresh(c)
          /\ overtaken' = IF \E d \in Callers : pc[d] \in Publishing
                          THEN overtaken \cup {c} ELSE overtaken \ {c}
  /\ UNCHANGED <<now, tokenExpiry, cachedToken, client, lock, created>>

\* WaitAsync is given no cancellation by any caller.
Acquire(c) ==
  /\ pc[c] = "Wait"
  /\ lock = Free
  /\ lock' = c
  /\ Goto(c, "Recheck")
  /\ UNCHANGED <<now, tokenExpiry, cachedToken, client, created, checkedAt,
                 overtaken>>

\* Defect: the check is not repeated under the lock.
RecheckSkipped(c) ==
  /\ pc[c] = "Recheck"
  /\ Goto(c, "Create")
  /\ UNCHANGED <<now, tokenExpiry, cachedToken, client, lock, created,
                 checkedAt, overtaken>>

Recheck(c) ==
  /\ pc[c] = "Recheck"
  /\ IF Stale
     THEN Goto(c, "Create") /\ UNCHANGED <<lock, checkedAt, overtaken>>
     ELSE /\ FoundFresh(c)
          /\ lock' = Free
          /\ overtaken' = overtaken \ {c}
  /\ UNCHANGED <<now, tokenExpiry, cachedToken, client, created>>

\* CreateInstallationToken has answered; its expiry is assigned at once.
CreateToken(c) ==
  /\ pc[c] = "Create"
  /\ created' = now + Lifetime
  /\ tokenExpiry' = now + Lifetime
  /\ checkedAt' = [checkedAt EXCEPT ![c] = now]
  /\ Goto(c, "PublishToken")
  /\ UNCHANGED <<now, cachedToken, client, lock, overtaken>>

\* Defect: the semaphore is not released when the token cannot be created.
CreateTokenFailsHoldingLock(c) ==
  /\ pc[c] = "Create"
  /\ Goto(c, "Idle")
  /\ UNCHANGED <<now, tokenExpiry, cachedToken, client, lock, created,
                 checkedAt, overtaken>>

\* The exception leaves through finally.
CreateTokenFails(c) ==
  /\ pc[c] = "Create"
  /\ lock' = Free
  /\ Goto(c, "Idle")
  /\ UNCHANGED <<now, tokenExpiry, cachedToken, client, created, checkedAt,
                 overtaken>>

PublishToken(c) ==
  /\ pc[c] = "PublishToken"
  /\ cachedToken' = created
  /\ Goto(c, "PublishClient")
  /\ UNCHANGED <<now, tokenExpiry, client, lock, created, checkedAt, overtaken>>

\* Defect: the client keeps its old credentials.
PublishClientUnchanged(c) ==
  /\ pc[c] = "PublishClient"
  /\ client' = IF client = Null THEN cachedToken ELSE client
  /\ created' = Null
  /\ lock' = Free
  /\ Goto(c, "Return")
  /\ overtaken' = overtaken \ {c}
  /\ UNCHANGED <<now, tokenExpiry, cachedToken, checkedAt>>

PublishClient(c) ==
  /\ pc[c] = "PublishClient"
  /\ client' = cachedToken
  /\ created' = Null
  /\ lock' = Free
  /\ Goto(c, "Return")
  /\ overtaken' = overtaken \ {c}
  /\ UNCHANGED <<now, tokenExpiry, cachedToken, checkedAt>>

\* return _singletonClient, read after the check and outside the lock.
Return(c) ==
  /\ pc[c] = "Return"
  /\ Goto(c, "Idle")
  /\ UNCHANGED <<now, tokenExpiry, cachedToken, client, lock, created,
                 checkedAt, overtaken>>

Tick ==
  /\ now < MaxTime
  /\ now' = now + 1
  /\ UNCHANGED <<pc, tokenExpiry, cachedToken, client, lock, created,
                 checkedAt, overtaken>>

Continue(c) ==
  \/ Acquire(c) \/ Recheck(c) \/ CreateToken(c) \/ CreateTokenFails(c)
  \/ PublishToken(c) \/ PublishClient(c) \/ Return(c)

Next ==
  \/ \E c \in Callers : Check(c) \/ Continue(c)
  \/ Tick

(* The semaphore serves its waiters; GitHub's answer or an exception comes. *)
Spec ==
  /\ Init /\ [][Next]_vars
  /\ \A c \in Callers : WF_vars(Continue(c)) /\ SF_vars(Acquire(c))

-----------------------------------------------------------------------------
(* Properties.                                                             *)

\* Every variable keeps its type, and the lock is held by the caller that is
\* between acquiring and releasing it, and by no other.
TypeOK ==
  /\ pc \in [Callers -> {"Idle", "Wait", "Recheck", "Create", "Return"}
                          \cup Publishing]
  /\ now \in Nat
  /\ tokenExpiry \in Nat
  /\ cachedToken \in Nat
  /\ client \in Nat
  /\ lock \in Callers \cup {Free}
  /\ created \in Nat
  /\ checkedAt \in [Callers -> Nat]
  /\ overtaken \subseteq Callers
  /\ \A c \in Callers : lock = c <=> pc[c] \in {"Recheck", "Create"} \cup Publishing

\* The client a caller is about to be given was still valid, by the full
\* buffer, when the caller checked, unless the check fell between a refresh's
\* assignment of the expiry and its assignment of the client.
FreshUnlessOvertaken ==
  \A c \in Callers :
    pc[c] = "Return" /\ c \notin overtaken => client > checkedAt[c] + RefreshBuffer

\* A token is only requested when the current one is stale: callers that
\* queued up behind a refresh do not repeat it.
NoNeedlessToken ==
  [][created' # created /\ created' # Null =>
       client = Null \/ now + RefreshBuffer >= client]_vars

\* Every caller gets a client or an exception; none waits for ever.
EveryCallEnds == \A c \in Callers : pc[c] # "Idle" ~> pc[c] = "Idle"

=============================================================================

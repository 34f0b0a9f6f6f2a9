------------------------ MODULE UserAccountManagerProofs ------------------------
(***************************************************************************)
(* What holds of the token for any set of users and any bounds: memory and *)
(* preferences agree, and no renewal undoes a sign-in.  Both follow from   *)
(* one inductive invariant: who is inside the monitor, and what each       *)
(* half-done change of the token has already written.  Then who is shown:  *)
(* the user whose token it is, as the notifications of the preference are  *)
(* delivered in order and the last of them carries the token of now.       *)
(***************************************************************************)
EXTENDS UserAccountManager, TLAPS

Calling == {"calling", "transfer"}

Typing ==
    /\ lastToken \in Tokens \union {NoToken}
    /\ stored \in Tokens \union Empty
    /\ lock \in Callers \union {None}
    /\ pc \in [Callers -> Steps]
    /\ old \in [Callers -> Tokens \union {NoToken, None}]
    /\ grant \in Grants
    /\ leaving \in BOOLEAN /\ diverged \in BOOLEAN
    /\ grant.step \in {"calling", "change", "store"} => grant.token \in Users

\* Whoever is in the middle of a change holds the monitor.
Monitor ==
    /\ \A c \in Callers : pc[c] \in Holding => lock = c
    /\ grant.step = "store" => lock = Account
    /\ grant.step \notin Calling => pc[Account] = "idle"

\* Where nobody without the monitor interfered, memory is a step ahead.
Writes ==
    /\ ~diverged => \A c \in Callers :
          /\ pc[c] = "renewing" /\ ~leaving => lastToken = StoredToken
          /\ pc[c] = "store" => lastToken = Renewed(old[c])
          /\ pc[c] = "drop" => lastToken = NoToken
    /\ ~diverged /\ grant.step = "store" => lastToken = grant.token
    /\ ~diverged /\ leaving => lastToken = NoToken

\* A token under renewal changes only by a sign-out.
Renewing ==
    \A c \in Callers : pc[c] = "renewing" => lastToken \in {old[c], NoToken}

IInv == Typing /\ Monitor /\ Writes /\ Renewing /\ MemoryMatchesStorage

tokenState == <<lastToken, stored, diverged, lock, old, leaving>>

\* The facts about constants that the steps need.
LEMMA Constants ==
    /\ None \notin Callers
    /\ Account \in Callers /\ Refresher \in Callers /\ Updater \in Callers
    /\ Account # Refresher /\ Account # Updater
    /\ NoToken \notin Tokens
    /\ Tokens \cap Empty = {}
    /\ NoToken \notin Empty
  BY CallersAssumption, UsersAssumption, ThreadsAssumption
     DEF NoToken, AppToken, Tokens, Empty

LEMMA Initially == Init => IInv
<1> SUFFICES ASSUME Init
             PROVE  IInv
  OBVIOUS
<1>1. PICK u \in Users \union {None} : AuthStart(IF u = None THEN "removed" ELSE u)
  BY DEF Init
<1>2. /\ stored \in Tokens \union Empty
      /\ lastToken \in Tokens \union {NoToken}
      /\ lastToken = StoredToken
  BY <1>1, UsersAssumption DEF AuthStart, Tokens, Empty, StoredToken
<1>3. /\ lock = None /\ leaving = FALSE /\ diverged = FALSE /\ grant = NoGrant
      /\ pc = [c \in Callers |-> "idle"]
      /\ old = [c \in Callers |-> None]
  BY <1>1 DEF AuthStart
<1>4. NoGrant \in Grants /\ NoGrant.step = "idle"
  BY DEF NoGrant, Grants
<1>5. Typing
  BY <1>2, <1>3, <1>4 DEF Typing, Steps, Ended
<1>6. Monitor
  BY <1>3, <1>4, Constants DEF Monitor, Holding, Calling
<1>7. Writes /\ Renewing /\ MemoryMatchesStorage
  BY <1>2, <1>3, <1>4 DEF Writes, Renewing, MemoryMatchesStorage
<1> QED BY <1>5, <1>6, <1>7 DEF IInv

(***************************************************************************)
(* A step that leaves the token, the monitor and the sign-in alone, and    *)
(* brings no call into the monitor, keeps the invariant.                   *)
(***************************************************************************)
LEMMA QuietStep ==
    ASSUME IInv, UNCHANGED tokenState, grant' \in Grants,
           pc' \in [Callers -> Steps],
           \A c \in Callers : pc'[c] \in Holding => pc'[c] = pc[c],
           grant'.step = "store" => grant = grant',
           grant'.step \in {"calling", "change"} => grant'.token \in Users,
           grant'.step \notin Calling => pc'[Account] = "idle"
    PROVE  IInv'
<1>1. Typing'
  BY DEF IInv, Typing, tokenState
<1>2. Monitor'
  BY DEF IInv, Monitor, tokenState
<1>3. Writes' /\ Renewing'
  BY DEF IInv, Writes, Renewing, tokenState, StoredToken, Empty, Holding
<1>4. MemoryMatchesStorage'
  BY DEF IInv, MemoryMatchesStorage, tokenState, StoredToken, Empty
<1> QED BY <1>1, <1>2, <1>3, <1>4 DEF IInv

-----------------------------------------------------------------------------
\* Steps of a call outside the monitor.
LEMMA OutsideStep ==
    ASSUME IInv, NEW c \in Callers,
           \/ Intercept(c) \/ Attach(c) \/ Retry(c) \/ RequestRenewal(c)
           \/ Answer(c, "ok") \/ Answer(c, "failed")
    PROVE  IInv'
<1>1. /\ pc[c] \in {"check", "attach", "retry", "flag", "sent"}
      /\ UNCHANGED <<tokenState, grant>>
      /\ \E step \in Steps \ Holding : Goto(c, step)
  BY DEF Intercept, Attach, Retry, RequestRenewal, Answer, tokenState, tokenVars,
     monitorVars, signVars, Steps, Ended, Holding
<1>2. pc' \in [Callers -> Steps] /\ \A d \in Callers : pc'[d] \in Holding => pc'[d] = pc[d]
  BY <1>1 DEF Goto, IInv, Typing
<1>3. grant.step \notin Calling => pc'[Account] = "idle"
  BY <1>1, Constants DEF Goto, IInv, Typing, Monitor
<1> QED BY <1>1, <1>2, <1>3, QuietStep DEF IInv, Typing, Monitor

\* A call that ends, or begins, on a thread that is not in the monitor.
LEMMA AfterRenewalSteps ==
    ASSUME NEW c \in Callers, NEW result \in BOOLEAN, AfterRenewal(c, result)
    PROVE  \E step \in Steps \ Holding : Goto(c, step)
  BY DEF AfterRenewal, Steps, Ended, Holding

LEMMA AuthenticateStep ==
    ASSUME IInv, NEW c \in Callers, Authenticate(c)
    PROVE  IInv'
<1>1. /\ pc[c] = "sent" /\ UNCHANGED <<lock, old, grant, leaving>>
      /\ \E step \in Steps \ Holding : Goto(c, step)
  BY DEF Authenticate, monitorVars, signVars, Steps, Ended, Holding
<1>2. /\ pc' \in [Callers -> Steps]
      /\ \A d \in Callers : pc'[d] \in Holding => pc'[d] = pc[d]
  BY <1>1 DEF Goto, IInv, Typing
<1>3. grant.step \notin Calling => pc'[Account] = "idle"
  BY <1>1, Constants DEF Goto, IInv, Typing, Monitor
<1>4. CASE UNCHANGED tokenVars
  BY <1>1, <1>2, <1>3, <1>4, QuietStep DEF IInv, Typing, Monitor, tokenVars, tokenState
<1>5. CASE stored' = "null" /\ diverged' = TRUE /\ lastToken' = lastToken
  <2>1. Typing'
    BY <1>1, <1>2, <1>5 DEF IInv, Typing, Empty
  <2>2. Monitor'
    BY <1>1, <1>2, <1>3 DEF IInv, Monitor
  <2>3. Writes' /\ Renewing' /\ MemoryMatchesStorage'
    BY <1>1, <1>2, <1>5 DEF IInv, Writes, Renewing, MemoryMatchesStorage, Holding
  <2> QED BY <2>1, <2>2, <2>3 DEF IInv
<1> QED BY <1>4, <1>5 DEF Authenticate, Put

LEMMA EnterStep ==
    ASSUME IInv, NEW c \in Callers, EnterRenewal(c)
    PROVE  IInv'
<1>1. /\ pc[c] = "enter" /\ lock = None
      /\ UNCHANGED <<lastToken, stored, diverged, grant, leaving>>
  BY DEF EnterRenewal, tokenVars, signVars
<1>2. \A d \in Callers : pc[d] \notin Holding
  BY <1>1, Constants DEF IInv, Monitor
<1>3. grant.step \in Calling \/ c # Account
  BY <1>1 DEF IInv, Monitor
<1>4. CASE needRenewToken
  <2>1. lock' = c /\ pc' = [pc EXCEPT ![c] = "renewing"]
        /\ old' = [old EXCEPT ![c] = lastToken]
    BY <1>4 DEF EnterRenewal, MonitorAfterEntry, Goto
  <2>2. Typing'
    BY <1>1, <2>1 DEF IInv, Typing, Steps, Holding
  <2>3. Monitor'
    BY <1>1, <1>2, <1>3, <2>1, Constants DEF IInv, Typing, Monitor, Calling
  <2>4. Writes'
    BY <1>1, <1>2, <2>1 DEF IInv, Typing, Writes, MemoryMatchesStorage, StoredToken, Holding
  <2>5. Renewing' /\ MemoryMatchesStorage'
    BY <1>1, <1>2, <2>1, Constants DEF IInv, Typing, Renewing, MemoryMatchesStorage, Holding
  <2> QED BY <2>2, <2>3, <2>4, <2>5 DEF IInv
<1>5. CASE ~needRenewToken
  <2>1. lock' = lock /\ old' = old /\ AfterRenewal(c, TRUE)
    BY <1>1, <1>5 DEF EnterRenewal, MonitorAfterEntry
  <2>2. PICK step \in Steps \ Holding : Goto(c, step)
    BY <2>1, AfterRenewalSteps
  <2>3. /\ pc' \in [Callers -> Steps]
        /\ \A d \in Callers : pc'[d] \in Holding => pc'[d] = pc[d]
        /\ grant.step \notin Calling => pc'[Account] = "idle"
    BY <1>3, <2>2, Constants DEF Goto, IInv, Typing, Monitor
  <2> QED BY <1>1, <2>1, <2>3, QuietStep DEF IInv, Typing, Monitor, tokenState
<1> QED BY <1>4, <1>5

\* The holder of the monitor renews the token; nobody else is inside.
LEMMA HolderAlone ==
    ASSUME IInv, NEW c \in Callers, pc[c] \in Holding
    PROVE  /\ lock = c
           /\ \A d \in Callers \ {c} : pc[d] \notin Holding
           /\ grant.step # "store"
           /\ grant.step \in Calling \/ c # Account
<1>1. lock = c /\ \A d \in Callers \ {c} : pc[d] \notin Holding
  BY DEF IInv, Monitor
<1>2. grant.step \in Calling \/ c # Account
  BY DEF IInv, Monitor, Holding
<1> QED BY <1>1, <1>2 DEF IInv, Monitor, Calling

LEMMA RenewedStep ==
    ASSUME IInv, NEW c \in Callers, TokenRenewed(c)
    PROVE  IInv'
<1>1. /\ pc[c] = "renewing" /\ pc' = [pc EXCEPT ![c] = "store"]
      /\ lastToken' = Renewed(old[c]) /\ diverged' = (diverged \/ leaving)
      /\ UNCHANGED <<stored, lock, old, grant, leaving>>
  BY DEF TokenRenewed, Goto, monitorVars, signVars
<1>2. /\ lock = c /\ \A d \in Callers \ {c} : pc[d] \notin Holding
      /\ grant.step # "store" /\ (grant.step \in Calling \/ c # Account)
  BY <1>1, HolderAlone DEF Holding
<1>3. Typing'
  BY <1>1 DEF IInv, Typing, Steps, Holding, Renewed, Tokens
<1>4. Monitor'
  BY <1>1, <1>2, Constants DEF IInv, Typing, Monitor
<1>5. Writes' /\ Renewing' /\ MemoryMatchesStorage'
  <2>1. lock' # None
    BY <1>1, <1>2, Constants
  <2>2. \A d \in Callers : pc'[d] # "renewing" /\ pc'[d] # "drop"
    BY <1>1, <1>2 DEF IInv, Typing, Holding
  <2>3. \A d \in Callers : pc'[d] = "store" => lastToken' = Renewed(old'[d])
    BY <1>1, <1>2 DEF IInv, Typing, Holding
  <2> QED BY <1>1, <1>2, <2>1, <2>2, <2>3 DEF IInv, Typing, Writes, Renewing,
          MemoryMatchesStorage, Renewed
<1> QED BY <1>3, <1>4, <1>5 DEF IInv

LEMMA RefusedStep ==
    ASSUME IInv, NEW c \in Callers, RenewalRefused(c)
    PROVE  IInv'
<1>1. /\ pc[c] = "renewing" /\ pc' = [pc EXCEPT ![c] = "drop"]
      /\ lastToken' = NoToken
      /\ UNCHANGED <<stored, diverged, lock, old, grant, leaving>>
  BY DEF RenewalRefused, Goto, monitorVars, signVars
<1>2. /\ lock = c /\ \A d \in Callers \ {c} : pc[d] \notin Holding
      /\ grant.step # "store" /\ (grant.step \in Calling \/ c # Account)
  BY <1>1, HolderAlone DEF Holding
<1>3. Typing'
  BY <1>1 DEF IInv, Typing, Steps, Holding
<1>4. Monitor'
  BY <1>1, <1>2, Constants DEF IInv, Typing, Monitor
<1>5. Writes' /\ Renewing' /\ MemoryMatchesStorage'
  <2>1. lock' # None
    BY <1>1, <1>2, Constants
  <2>2. \A d \in Callers : pc'[d] # "renewing" /\ pc'[d] # "store"
    BY <1>1, <1>2 DEF IInv, Typing, Holding
  <2> QED BY <1>1, <1>2, <2>1, <2>2 DEF IInv, Typing, Writes, Renewing,
          MemoryMatchesStorage
<1> QED BY <1>3, <1>4, <1>5 DEF IInv

LEMMA LeaveStep ==
    ASSUME IInv, NEW c \in Callers, LeaveRenewal(c)
    PROVE  IInv'
<1>1. /\ pc[c] \in {"store", "drop"}
      /\ stored' = RenewalWrites(c) /\ lock' = None
      /\ old' = [old EXCEPT ![c] = None]
      /\ AfterRenewal(c, pc[c] = "store")
      /\ UNCHANGED <<lastToken, diverged, grant, leaving>>
  BY DEF LeaveRenewal, Put, signVars
<1>2. /\ lock = c /\ \A d \in Callers \ {c} : pc[d] \notin Holding
      /\ grant.step # "store" /\ (grant.step \in Calling \/ c # Account)
  BY <1>1, HolderAlone DEF Holding
<1>3. PICK step \in Steps \ Holding : pc' = [pc EXCEPT ![c] = step]
  BY <1>1, AfterRenewalSteps DEF Goto
<1>4. \A d \in Callers : pc'[d] \notin Holding
  BY <1>2, <1>3 DEF IInv, Typing
<1>5. Typing'
  BY <1>1, <1>3 DEF IInv, Typing, RenewalWrites, Renewed, Tokens, Empty
<1>6. Monitor'
  BY <1>1, <1>2, <1>3, <1>4, Constants DEF IInv, Typing, Monitor
<1>7. ~diverged => lastToken = StoredToken'
  <2>1. CASE pc[c] = "store"
    BY <1>1, <2>1, UsersAssumption
       DEF IInv, Writes, RenewalWrites, Renewed, StoredToken, Empty, AppToken
  <2>2. CASE pc[c] = "drop"
    BY <1>1, <2>2 DEF IInv, Writes, RenewalWrites, StoredToken, Empty
  <2> QED BY <1>1, <2>1, <2>2
<1>8. Writes' /\ Renewing' /\ MemoryMatchesStorage'
  BY <1>1, <1>2, <1>4, <1>7 DEF IInv, Writes, Renewing, MemoryMatchesStorage, Holding
<1> QED BY <1>5, <1>6, <1>8 DEF IInv

-----------------------------------------------------------------------------
\* A sign-in changes the token inside the monitor.
LEMMA ChangeStep ==
    ASSUME IInv, ChangeToken(Account)
    PROVE  IInv'
<1>1. /\ grant.step = "change" /\ lock = None /\ lock' = Account
      /\ lastToken' = grant.token /\ diverged' = (diverged \/ leaving)
      /\ grant' = [grant EXCEPT !.step = "store"]
      /\ UNCHANGED <<stored, pc, old, leaving>>
  BY DEF ChangeToken, MonitorFree, callVars
<1>2. \A d \in Callers : pc[d] \notin Holding
  BY <1>1, Constants DEF IInv, Monitor
<1>3. grant'.step = "store" /\ grant'.token = grant.token /\ grant.token \in Users
  BY <1>1 DEF IInv, Typing, Grants
<1>4. Typing'
  BY <1>1, <1>3, Constants DEF IInv, Typing, Grants, Tokens
<1>5. Monitor'
  BY <1>1, <1>2, <1>3 DEF IInv, Monitor, Calling
<1>6. Writes' /\ Renewing' /\ MemoryMatchesStorage'
  BY <1>1, <1>2, <1>3, Constants DEF IInv, Writes, Renewing, MemoryMatchesStorage, Holding
<1> QED BY <1>4, <1>5, <1>6 DEF IInv

LEMMA StoreStep ==
    ASSUME IInv, StoreToken
    PROVE  IInv'
<1>1. /\ grant.step = "store" /\ lock' = None
      /\ stored' = grant.token
      /\ grant' = [grant EXCEPT !.step = "post"]
      /\ UNCHANGED <<lastToken, diverged, pc, old, leaving>>
  BY DEF StoreToken, Put, callVars
<1>2. lock = Account /\ \A d \in Callers : pc[d] \notin Holding
  BY <1>1 DEF IInv, Monitor, Holding, Calling
<1>3. grant'.step = "post" /\ grant' \in Grants /\ grant.token \in Users
  BY <1>1 DEF IInv, Typing, Grants
<1>4. Typing'
  BY <1>1, <1>3 DEF IInv, Typing, Tokens
<1>5. Monitor'
  BY <1>1, <1>2, <1>3 DEF IInv, Monitor, Calling
<1>6. ~diverged => lastToken = StoredToken'
  BY <1>1, <1>3, UsersAssumption DEF IInv, Writes, StoredToken, Empty
<1>7. Writes' /\ Renewing' /\ MemoryMatchesStorage'
  BY <1>1, <1>2, <1>3, <1>6 DEF IInv, Writes, Renewing, MemoryMatchesStorage, Holding
<1> QED BY <1>4, <1>5, <1>7 DEF IInv

\* A sign-out writes without the monitor.
LEMMA SignOutStep ==
    ASSUME IInv, SignOut
    PROVE  IInv'
<1>1. /\ leaving' = TRUE /\ lastToken' = NoToken
      /\ diverged' = (diverged \/ WritingToken)
      /\ UNCHANGED <<stored, lock, pc, old, grant>>
  BY DEF SignOut, monitorVars, callVars
<1>2. Typing' /\ Monitor'
  BY <1>1 DEF IInv, Typing, Monitor, WritingToken
<1>3. Writes' /\ Renewing' /\ MemoryMatchesStorage'
  BY <1>1 DEF IInv, Writes, Renewing, MemoryMatchesStorage, WritingToken
<1> QED BY <1>2, <1>3 DEF IInv

LEMMA SignOutStoredStep ==
    ASSUME IInv, SignOutStored
    PROVE  IInv'
<1>1. /\ leaving /\ leaving' = FALSE /\ stored' = "removed"
      /\ UNCHANGED <<lastToken, diverged, lock, pc, old, grant>>
  BY DEF SignOutStored, Put, monitorVars, callVars
<1>2. Typing' /\ Monitor'
  BY <1>1 DEF IInv, Typing, Monitor, Empty
<1>3. ~diverged => lastToken = StoredToken'
  BY <1>1 DEF IInv, Writes, StoredToken, Empty
<1>4. Writes' /\ Renewing' /\ MemoryMatchesStorage'
  BY <1>1, <1>3 DEF IInv, Writes, Renewing, MemoryMatchesStorage, Renewed
<1> QED BY <1>2, <1>4 DEF IInv
-----------------------------------------------------------------------------
\* The other threads begin and end calls of their own.
LEMMA ThreadStep ==
    ASSUME IInv, UNCHANGED <<lastToken, stored, diverged, lock, leaving, grant>>,
           NEW c \in {Refresher, Updater},
           UNCHANGED callVars \/ StartCall(c) \/ CallEnds(c)
    PROVE  IInv'
<1>1. UNCHANGED <<tokenState, grant>>
  BY DEF tokenState, callVars, StartCall, CallEnds
<1>2. /\ pc' \in [Callers -> Steps]
      /\ \A d \in Callers : pc'[d] \in Holding => pc'[d] = pc[d]
      /\ pc'[Account] = pc[Account]
  BY Constants DEF callVars, StartCall, CallEnds, Goto, IInv, Typing, Steps, Ended, Holding
<1> QED BY <1>1, <1>2, QuietStep DEF IInv, Typing, Monitor

LEMMA ThreadSteps ==
    ASSUME IInv, Notify \/ RefreshStep \/ UpdateProfile \/ UpdateStep
    PROVE  IInv'
<1>1. UNCHANGED <<lastToken, stored, diverged, lock, leaving, grant>>
  BY DEF Notify, RefreshStep, RefreshTake, RefreshShow, RefreshLoaded, UpdateProfile,
     UpdateStep, ProfileSent, ProfileLoaded, tokenVars, monitorVars
<1>2. \E c \in {Refresher, Updater} : UNCHANGED callVars \/ StartCall(c) \/ CallEnds(c)
  BY DEF Notify, RefreshStep, RefreshTake, RefreshShow, RefreshLoaded, UpdateProfile,
     UpdateStep, ProfileSent, ProfileLoaded
<1> QED BY <1>1, <1>2, ThreadStep

\* A sign-in before and after it changes the token.
LEMMA GrantOutside ==
    ASSUME IInv, UNCHANGED <<lastToken, stored, diverged, lock, leaving>>,
           grant' \in Grants, grant'.step # "store",
           grant'.step \in {"calling", "change"} => grant'.token \in Users,
           \/ UNCHANGED callVars /\ (grant.step \in Calling => grant'.step \in Calling)
           \/ StartCall(Account) /\ grant'.step \in Calling
           \/ CallEnds(Account)
    PROVE  IInv'
<1>1. UNCHANGED tokenState
  BY DEF tokenState, callVars, StartCall, CallEnds
<1>2. /\ pc' \in [Callers -> Steps]
      /\ \A d \in Callers : pc'[d] \in Holding => pc'[d] = pc[d]
      /\ grant'.step \notin Calling => pc'[Account] = "idle"
  BY Constants DEF callVars, StartCall, CallEnds, Goto, IInv, Typing, Monitor, Steps,
     Ended, Holding
<1> QED BY <1>1, <1>2, QuietStep

LEMMA GrantSteps ==
    ASSUME IInv,
           \/ \E u \in Users : SignIn(u) \/ \E k \in {"real", "ghost", "facebook"} : SignUp(u, k)
           \/ SignUpAnswered \/ PostTokenChange \/ Transferred \/ MarkUser \/ MarkGhost
    PROVE  IInv'
<1> USE DEF tokenVars, monitorVars
<1>1. ASSUME NEW u \in Users, SignIn(u)
      PROVE  IInv'
  <2>1. /\ grant.step = "idle"
        /\ grant' = [step |-> "change", kind |-> "real", token |-> u, prev |-> lastToken]
        /\ UNCHANGED <<lastToken, stored, diverged, lock, leaving, callVars>>
    BY <1>1 DEF SignIn, StartGrant, TokenGranted
  <2>2. grant' \in Grants
    BY <2>1 DEF IInv, Typing, Grants
  <2> QED BY <2>1, <2>2, GrantOutside DEF Calling
<1>2. ASSUME NEW u \in Users, NEW k \in {"real", "ghost", "facebook"}, SignUp(u, k)
      PROVE  IInv'
  <2>1. /\ StartCall(Account)
        /\ grant' = [NoGrant EXCEPT !.step = "calling", !.token = u, !.kind = k]
        /\ UNCHANGED <<lastToken, stored, diverged, lock, leaving>>
    BY <1>2 DEF SignUp
  <2>2. grant' \in Grants /\ grant'.step = "calling" /\ grant'.token = u
    BY <2>1 DEF Grants, NoGrant
  <2> QED BY <2>1, <2>2, GrantOutside DEF Calling
<1>3. CASE SignUpAnswered
  <2>1. /\ grant.step = "calling" /\ CallEnds(Account)
        /\ UNCHANGED <<lastToken, stored, diverged, lock, leaving>>
        /\ \/ grant' = [step |-> "change", kind |-> grant.kind, token |-> grant.token,
                        prev |-> lastToken]
           \/ grant' = NoGrant
    BY <1>3 DEF SignUpAnswered, TokenGranted
  <2>2. grant' \in Grants /\ grant'.step \in {"change", "idle"}
        /\ (grant'.step = "change" => grant'.token \in Users)
    BY <2>1 DEF IInv, Typing, Grants, NoGrant
  <2> QED BY <2>1, <2>2, GrantOutside
<1>4. CASE PostTokenChange
  <2>1. /\ UNCHANGED <<lastToken, stored, diverged, lock, leaving>>
        /\ grant.step = "post"
        /\ \/ StartCall(Account) /\ grant' = [grant EXCEPT !.step = "transfer", !.prev = None]
           \/ UNCHANGED callVars /\ grant' = [grant EXCEPT !.step = "mark", !.prev = None]
    BY <1>4 DEF PostTokenChange
  <2>2. \A s \in {"transfer", "mark"} :
           LET g == [grant EXCEPT !.step = s, !.prev = None] IN g \in Grants /\ g.step = s
    BY DEF IInv, Typing, Grants
  <2> QED BY <2>1, <2>2, GrantOutside DEF Calling
<1>5. CASE Transferred
  <2>1. /\ UNCHANGED <<lastToken, stored, diverged, lock, leaving>>
        /\ CallEnds(Account) /\ grant' = [grant EXCEPT !.step = "mark"]
    BY <1>5 DEF Transferred
  <2>2. grant' \in Grants /\ grant'.step = "mark"
    BY <2>1 DEF IInv, Typing, Grants
  <2> QED BY <2>1, <2>2, GrantOutside
<1>6. CASE MarkUser \/ MarkGhost
  <2>1. /\ UNCHANGED <<lastToken, stored, diverged, lock, leaving, callVars>>
        /\ grant.step \in {"mark", "wait"}
        /\ grant' = NoGrant \/ grant' = [grant EXCEPT !.step = "wait"]
    BY <1>6 DEF MarkUser, MarkGhost
  <2>2. grant' \in Grants /\ grant'.step \in {"idle", "wait"}
    BY <2>1 DEF IInv, Typing, Grants, NoGrant
  <2> QED BY <2>1, <2>2, GrantOutside DEF Calling
<1> QED BY <1>1, <1>2, <1>3, <1>4, <1>5, <1>6

LEMMA RestartStep ==
    ASSUME IInv, Restart
    PROVE  IInv'
<1>1. /\ lastToken' = StoredToken /\ stored' = stored /\ lock' = None
      /\ pc' = [c \in Callers |-> "idle"] /\ old' = [c \in Callers |-> None]
      /\ grant' = NoGrant /\ leaving' = FALSE /\ diverged' = FALSE
  BY DEF Restart
<1>2. NoGrant \in Grants /\ NoGrant.step = "idle"
  BY DEF NoGrant, Grants
<1>3. Typing'
  BY <1>1, <1>2 DEF IInv, Typing, StoredToken, Steps, Ended
<1>4. Monitor'
  BY <1>1, <1>2, Constants DEF Monitor, Holding
<1>5. Writes' /\ Renewing' /\ MemoryMatchesStorage'
  BY <1>1, <1>2 DEF Writes, Renewing, MemoryMatchesStorage, StoredToken
<1> QED BY <1>3, <1>4, <1>5 DEF IInv

-----------------------------------------------------------------------------
LEMMA Preserved == IInv /\ [Next]_vars => IInv'
<1> SUFFICES ASSUME IInv, [Next]_vars
             PROVE  IInv'
  OBVIOUS
<1>1. ASSUME NEW c \in Callers, Call(c)
      PROVE  IInv'
  BY <1>1, OutsideStep, AuthenticateStep, EnterStep, RenewedStep, RefusedStep, LeaveStep
     DEF Call, CallStep
<1>2. CASE Notify \/ RefreshStep \/ UpdateProfile \/ UpdateStep
  BY <1>2, ThreadSteps
<1>3. CASE \E u \in Users : SignIn(u) \/ \E kind \in {"real", "ghost", "facebook"} : SignUp(u, kind)
  BY <1>3, GrantSteps
<1>4. CASE GrantStep
  BY <1>4, GrantSteps, ChangeStep, StoreStep DEF GrantStep
<1>5. CASE LeaveAccount \/ AccountLeft
  BY <1>5, SignOutStep, SignOutStoredStep DEF LeaveAccount, AccountLeft
<1>6. CASE Restart
  BY <1>6, RestartStep
<1>7. CASE UNCHANGED vars
  BY <1>7, QuietStep DEF vars, authVars, tokenVars, monitorVars, callVars, signVars,
     tokenState, IInv, Typing, Monitor
<1> QED BY <1>1, <1>2, <1>3, <1>4, <1>5, <1>6, <1>7 DEF Next

(***************************************************************************)
(* The invariant holds in every state of every behaviour: TokenAuthenti-   *)
(* cator and UserAccountManagerImpl.                                       *)
(***************************************************************************)
THEOREM Invariance == Spec => []IInv
<1>1. Init => IInv
  BY Initially
<1>2. IInv /\ [Next]_vars => IInv'
  BY Preserved
<1> QED BY <1>1, <1>2, PTL DEF Spec

(***************************************************************************)
(* Memory and preferences hold the same token whenever nobody changes it,  *)
(* unless a write without the monitor interfered: changeToken, reNewToken, *)
(* dropToken.                                                              *)
(***************************************************************************)
THEOREM TokenCopiesAgree == Spec => []MemoryMatchesStorage
<1>1. IInv => MemoryMatchesStorage
  BY DEF IInv
<1> QED BY <1>1, Invariance, PTL

(***************************************************************************)
(* No renewal replaces the token of a user who signed in meanwhile:        *)
(* reNewToken against changeToken.                                         *)
(***************************************************************************)
THEOREM SignInsKept == Spec => RenewalKeepsUser
<1>1. IInv => [\A c \in Callers : TokenRenewed(c) /\ lastToken \in Users
                 => lastToken' = lastToken]_vars
  BY Constants DEF IInv, Renewing, TokenRenewed, Renewed, Tokens
<1> QED BY <1>1, Invariance, PTL DEF RenewalKeepsUser

-----------------------------------------------------------------------------
(* Who is shown *)

AccountTyping ==
    /\ info \in Users \union NoInfo \union {"blank"}
    /\ owners \subseteq Users
    /\ tokens \in Seq(Tokens \union {NoToken})
    /\ serving \in Tokens \union {NoToken, None}
    /\ changes \in Nat

\* Whom the refreshes delivered so far are going to show.
Expected ==
    UserOf(IF tokens # <<>> THEN tokens[Len(tokens)]
           ELSE IF refresh = "show" THEN serving ELSE Shown)

\* The last notification is delivered with the token of now.
Following ==
    ~overtaken /\ changes = 0 /\ refresh # "failed" => Expected = UserOf(StoredToken)

\* Content is dropped before another user is shown.
Dropping ==
    ~overtaken => /\ owners \subseteq {Shown}
                  /\ refresh = "show" => owners = {}

ShowInv == AccountTyping /\ Following /\ Dropping

LEMMA NamesDiffer ==
    /\ None \notin Users /\ "missing" \notin Users /\ "none" \notin Users
    /\ "blank" \notin Users /\ NoToken \notin Users /\ AppToken \notin Users
    /\ UserOf(Shown) = Shown
  BY UsersAssumption DEF UserOf, Shown, NoToken, AppToken

LEMMA ShowInitially == Init => ShowInv
<1> SUFFICES ASSUME Init
             PROVE  ShowInv
  OBVIOUS
<1>1. PICK u \in Users \union {None} :
         /\ AuthStart(IF u = None THEN "removed" ELSE u)
         /\ info = IF u = None THEN "missing" ELSE u
         /\ owners = {u} \ {None}
         /\ tokens = <<IF u = None THEN NoToken ELSE u>>
  BY DEF Init
<1>2. serving = None /\ refresh = "idle" /\ changes = 0
      /\ stored = IF u = None THEN "removed" ELSE u
  BY <1>1 DEF Init, AuthStart
<1>3. StoredToken = IF u = None THEN NoToken ELSE u
  BY <1>2, UsersAssumption DEF StoredToken, Empty
<1>4. tokens # <<>> /\ tokens[Len(tokens)] = StoredToken
  BY <1>1, <1>3
<1>5. AccountTyping
  BY <1>1, <1>2 DEF AccountTyping, NoInfo, Tokens
<1>6. Following
  BY <1>4 DEF Following, Expected
<1>7. Dropping
  BY <1>1, <1>2, NamesDiffer DEF Dropping, Shown
<1> QED BY <1>5, <1>6, <1>7 DEF ShowInv

(***************************************************************************)
(* A change of the stored token that is announced will be delivered; one   *)
(* that is not changes nothing.                                            *)
(***************************************************************************)
LEMMA TokenSide ==
    ASSUME ShowInv, UNCHANGED <<info, owners, tokens, serving, refresh, overtaken>>,
           \/ changes' = changes + 1
           \/ changes' = changes /\ StoredToken' = StoredToken
    PROVE  ShowInv'
<1>1. AccountTyping' /\ Dropping'
  BY DEF ShowInv, AccountTyping, Dropping, Shown
<1>2. changes \in Nat
  BY DEF ShowInv, AccountTyping
<1>3. Expected' = Expected
  BY DEF Expected, Shown
<1>4. Following'
  BY <1>2, <1>3 DEF ShowInv, Following
<1> QED BY <1>1, <1>4 DEF ShowInv

LEMMA PutAnnounces ==
    ASSUME NEW v, Put(v)
    PROVE  \/ changes' = changes + 1
           \/ changes' = changes /\ StoredToken' = StoredToken
  BY DEF Put, Unannounced, StoredToken

LEMMA CallShows ==
    ASSUME ShowInv, NEW c \in Callers, Call(c)
    PROVE  ShowInv'
<1>1. UNCHANGED <<info, owners, tokens, serving, refresh, overtaken>>
  BY DEF Call, accountVars
<1>2. \/ \E v : Put(v)
      \/ changes' = changes /\ stored' = stored
  <2>1. CASE Authenticate(c)
    BY <2>1 DEF Authenticate, tokenVars
  <2>2. CASE LeaveRenewal(c)
    BY <2>2 DEF LeaveRenewal
  <2>3. CASE \/ Intercept(c) \/ Attach(c) \/ Retry(c) \/ Answer(c, "ok") \/ Answer(c, "failed")
             \/ RequestRenewal(c) \/ EnterRenewal(c) \/ TokenRenewed(c) \/ RenewalRefused(c)
    BY <2>3 DEF Intercept, Attach, Retry, Answer, RequestRenewal, EnterRenewal, TokenRenewed,
       RenewalRefused, tokenVars
  <2> QED BY <2>1, <2>2, <2>3 DEF Call, CallStep
<1>3. \/ changes' = changes + 1
      \/ changes' = changes /\ StoredToken' = StoredToken
  BY <1>2, PutAnnounces DEF StoredToken
<1> QED BY <1>1, <1>3, TokenSide

LEMMA AccountShows ==
    ASSUME ShowInv,
           \/ \E u \in Users : SignIn(u) \/ \E k \in {"real", "ghost", "facebook"} : SignUp(u, k)
           \/ GrantStep \/ LeaveAccount \/ AccountLeft \/ UpdateProfile \/ ProfileSent
    PROVE  ShowInv'
<1> DEFINE Outside == UNCHANGED <<info, owners, tokens, serving, refresh, overtaken>>
           Announced == (\E v : Put(v)) \/ (changes' = changes /\ stored' = stored)
<1>1. Outside /\ Announced
  <2>1. ASSUME NEW u \in Users, SignIn(u) PROVE Outside /\ Announced
    BY <2>1 DEF SignIn, accountVars, tokenVars
  <2>2. ASSUME NEW u \in Users, NEW k \in {"real", "ghost", "facebook"}, SignUp(u, k)
        PROVE  Outside /\ Announced
    <3>1. UNCHANGED <<tokenVars, accountVars>>
      BY <2>2, Zenon DEF SignUp
    <3> QED BY <3>1 DEF accountVars, tokenVars
  <2>3. CASE SignUpAnswered \/ PostTokenChange \/ Transferred
    BY <2>3 DEF SignUpAnswered, PostTokenChange, Transferred, accountVars, tokenVars
  <2>4. CASE MarkUser \/ MarkGhost
    BY <2>4 DEF MarkUser, MarkGhost, tokenVars
  <2>5. CASE (ChangeToken(Account) \/ StoreToken) /\ UNCHANGED <<accountVars, budget>>
    BY <2>5 DEF ChangeToken, StoreToken, accountVars, tokenVars
  <2>6. CASE LeaveAccount
    BY <2>6 DEF LeaveAccount, SignOut, accountVars
  <2>7. CASE AccountLeft
    BY <2>7 DEF AccountLeft, SignOutStored, accountVars
  <2>8. CASE UpdateProfile \/ ProfileSent
    BY <2>8 DEF UpdateProfile, ProfileSent, tokenVars
  <2> HIDE DEF Outside, Announced
  <2> QED BY <2>1, <2>2, <2>3, <2>4, <2>5, <2>6, <2>7, <2>8 DEF GrantStep
<1>2. (\E v : Put(v)) \/ (changes' = changes /\ stored' = stored)
  BY <1>1
<1>3. \/ changes' = changes + 1
      \/ changes' = changes /\ StoredToken' = StoredToken
  BY <1>2, PutAnnounces DEF StoredToken
<1> QED BY <1>1, <1>3, TokenSide

LEMMA NotifyShows ==
    ASSUME ShowInv, IInv, Notify
    PROVE  ShowInv'
<1> USE DEF ShowInv
<1>1. /\ tokens' = IF refresh = "failed" THEN tokens ELSE Append(tokens, StoredToken)
      /\ changes > 0 /\ changes' = changes - 1
      /\ UNCHANGED <<stored, info, owners, serving, refresh, overtaken>>
  BY DEF Notify
<1>2. StoredToken \in Tokens \union {NoToken}
  BY DEF IInv, Typing, StoredToken
<1>3. AccountTyping'
  BY <1>1, <1>2 DEF AccountTyping
<1>4. Dropping'
  BY <1>1 DEF Dropping, Shown
<1>5. Following'
  <2>1. CASE refresh = "failed"
    BY <1>1, <2>1 DEF Following
  <2>2. CASE refresh # "failed"
    <3>1. tokens' = Append(tokens, StoredToken) /\ tokens \in Seq(Tokens \union {NoToken})
      BY <1>1, <2>2 DEF AccountTyping
    <3>2. tokens' # <<>> /\ tokens'[Len(tokens')] = StoredToken
      BY <3>1
    <3>3. StoredToken' = StoredToken
      BY <1>1 DEF StoredToken
    <3>4. Expected' = UserOf(StoredToken')
      BY <3>2, <3>3 DEF Expected
    <3> QED BY <3>4 DEF Following
  <2> QED BY <2>1, <2>2
<1> QED BY <1>3, <1>4, <1>5

(***************************************************************************)
(* The token taken is the last of those expected, or more are to come.     *)
(***************************************************************************)
LEMMA TakeShows ==
    ASSUME ShowInv, RefreshTake
    PROVE  ShowInv'
<1> USE DEF ShowInv
<1> DEFINE t == Head(tokens)
<1>1. /\ refresh = "idle" /\ tokens # <<>>
      /\ UNCHANGED <<stored, changes, info, overtaken>>
  BY DEF RefreshTake, tokenVars
<1>2. /\ t \in Tokens \union {NoToken} /\ Tail(tokens) \in Seq(Tokens \union {NoToken})
      /\ Tail(tokens) # <<>> => Tail(tokens)[Len(Tail(tokens))] = tokens[Len(tokens)]
      /\ Tail(tokens) = <<>> => t = tokens[Len(tokens)]
  <2>1. tokens \in Seq(Tokens \union {NoToken}) /\ Len(tokens) \in Nat /\ Len(tokens) > 0
    BY <1>1 DEF AccountTyping
  <2>2. /\ t \in Tokens \union {NoToken} /\ Tail(tokens) \in Seq(Tokens \union {NoToken})
        /\ t = tokens[1] /\ Len(Tail(tokens)) = Len(tokens) - 1
    BY <2>1
  <2>3. \A i \in 1..Len(Tail(tokens)) : Tail(tokens)[i] = tokens[i + 1]
    BY <2>1
  <2>4. Tail(tokens) # <<>> <=> Len(Tail(tokens)) > 0
    <3>1. ASSUME NEW s \in Seq(Tokens \union {NoToken})
          PROVE  s # <<>> <=> Len(s) > 0
      OBVIOUS
    <3> QED BY <2>2, <3>1
  <2> QED BY <2>1, <2>2, <2>3, <2>4
<1>3. \/ /\ refresh' = "failed" /\ tokens' = <<>>
         /\ UNCHANGED <<owners, serving>>
      \/ /\ refresh' = "show" /\ serving' = t /\ tokens' = Tail(tokens) /\ owners' = {}
      \/ /\ refresh' = "show" /\ serving' = t /\ tokens' = Tail(tokens) /\ owners' = owners
         /\ info \in NoInfo
      \/ /\ refresh' \in {"loading", "idle"} /\ tokens' = Tail(tokens)
         /\ UNCHANGED <<owners, serving>>
         /\ (t \in Users /\ info = t) \/ (t \notin Users /\ info \in NoInfo)
  BY <1>1 DEF RefreshTake
<1> HIDE DEF t
<1>4. AccountTyping'
  <2>1. tokens' \in Seq(Tokens \union {NoToken})
    <3>1. <<>> \in Seq(Tokens \union {NoToken})
      OBVIOUS
    <3> QED BY <1>2, <1>3, <3>1, Zenon
  <2>2. owners' \subseteq Users
    <3>1. owners' = {} \/ owners' = owners
      BY <1>3, Zenon
    <3> QED BY <3>1 DEF AccountTyping
  <2>3. serving' \in Tokens \union {NoToken, None}
    <3>1. serving' = t \/ serving' = serving
      BY <1>3, Zenon
    <3> QED BY <1>2, <3>1 DEF AccountTyping
  <2> QED BY <1>1, <2>1, <2>2, <2>3 DEF AccountTyping
<1>5. Dropping'
  <2>1. info \in NoInfo => Shown = None
    BY NamesDiffer DEF Shown, NoInfo
  <2>2. ~overtaken => owners \subseteq {Shown}
    BY DEF Dropping
  <2>3. owners \subseteq Users /\ Shown' = Shown
    BY <1>1 DEF AccountTyping, Shown
  <2>4. ~overtaken /\ info \in NoInfo => owners = {}
    BY <2>1, <2>2, <2>3, NamesDiffer
  <2> QED BY <1>1, <1>3, <2>2, <2>3, <2>4 DEF Dropping
<1>6. Following'
  <2> SUFFICES ASSUME ~overtaken', changes' = 0, refresh' # "failed"
               PROVE  Expected' = UserOf(StoredToken')
    BY DEF Following
  <2>1. StoredToken' = StoredToken /\ Shown' = Shown
    BY <1>1 DEF StoredToken, Shown
  <2>2. UserOf(tokens[Len(tokens)]) = UserOf(StoredToken)
    BY <1>1 DEF Following, Expected
  <2>3. CASE Tail(tokens) # <<>>
    BY <1>2, <1>3, <2>1, <2>2, <2>3 DEF Expected
  <2>4. CASE Tail(tokens) = <<>>
    <3>1. CASE refresh' = "show"
      BY <1>2, <1>3, <2>1, <2>2, <2>4, <3>1 DEF Expected
    <3>2. CASE refresh' # "show"
      <4>1. /\ tokens' = <<>>
            /\ (t \in Users /\ info = t) \/ (t \notin Users /\ info \in NoInfo)
        BY <1>3, <2>4, <3>2
      <4>2. Shown = UserOf(t)
        BY <4>1, NamesDiffer DEF Shown, UserOf, NoInfo
      <4>3. UserOf(Shown) = Shown
        BY NamesDiffer
      <4>4. Expected' = UserOf(Shown)
        BY <2>1, <3>2, <4>1 DEF Expected
      <4> QED BY <1>2, <2>1, <2>2, <2>4, <4>2, <4>3, <4>4
    <3> QED BY <3>1, <3>2
  <2> QED BY <2>3, <2>4
<1> QED BY <1>4, <1>5, <1>6

LEMMA ShowShows ==
    ASSUME ShowInv, RefreshShow
    PROVE  ShowInv'
<1> USE DEF ShowInv
<1>1. /\ refresh = "show" /\ refresh' # "show" /\ refresh' # "failed"
      /\ serving' = None
      /\ UNCHANGED <<stored, changes, tokens, overtaken>>
  BY DEF RefreshShow, tokenVars
<1>2. \/ /\ serving \in Users /\ info' = serving
         /\ owners' = IF serving = Shown THEN owners ELSE owners \union {serving}
      \/ serving \notin Users /\ info' = "none" /\ owners' = owners
  BY DEF RefreshShow, Show
<1>3. Shown' = UserOf(serving)
  BY <1>2, NamesDiffer DEF Shown, UserOf
<1>4. AccountTyping'
  BY <1>1, <1>2 DEF AccountTyping, NoInfo
<1>5. Dropping'
  BY <1>1, <1>2, <1>3 DEF Dropping, UserOf
<1>6. Following'
  <2>1. StoredToken' = StoredToken
    BY <1>1 DEF StoredToken
  <2>2. UserOf(UserOf(serving)) = UserOf(serving)
    BY NamesDiffer DEF UserOf
  <2>3. Expected' = Expected
    BY <1>1, <1>3, <2>2 DEF Expected
  <2> QED BY <1>1, <2>1, <2>3 DEF Following
<1> QED BY <1>4, <1>5, <1>6

(***************************************************************************)
(* An answer that does not change the user shown changes nothing.          *)
(***************************************************************************)
LEMMA AnswerShows ==
    ASSUME ShowInv, NEW c \in Callers, ShowAnswer(c),
           UNCHANGED <<stored, changes, tokens>>,
           \/ UNCHANGED <<serving, refresh>>
           \/ refresh = "loading" /\ refresh' = "idle" /\ serving' = None
    PROVE  ShowInv'
<1> USE DEF ShowInv
<1>1. \/ /\ header[c] \in Users /\ info' = header[c]
         /\ owners' = IF header[c] = Shown THEN owners ELSE owners \union {header[c]}
      \/ UNCHANGED <<info, owners>>
  BY DEF ShowAnswer, Show
<1>2. AccountTyping'
  BY <1>1 DEF AccountTyping
<1>3. CASE ~overtaken'
  <2>1. ~overtaken /\ UNCHANGED <<info, owners>>
    <3>1. CASE pc[c] = "ok" /\ header[c] \in Users
      <4>1. ~overtaken /\ header[c] = Shown
        BY <1>3, <3>1, Zenon DEF ShowAnswer
      <4>2. info = header[c]
        BY <3>1, <4>1, NamesDiffer DEF Shown
      <4> QED BY <3>1, <4>1, <4>2 DEF ShowAnswer, Show
    <3>2. CASE ~(pc[c] = "ok" /\ header[c] \in Users)
      BY <1>3, <3>2 DEF ShowAnswer
    <3> QED BY <3>1, <3>2
  <2>2. Shown' = Shown /\ StoredToken' = StoredToken
    BY <2>1 DEF Shown, StoredToken
  <2>3. Expected' = Expected
    BY <2>2 DEF Expected
  <2>4. Following'
    BY <2>1, <2>2, <2>3 DEF Following
  <2>5. Dropping'
    BY <2>1, <2>2 DEF Dropping
  <2> QED BY <1>2, <2>4, <2>5
<1>4. CASE overtaken'
  BY <1>2, <1>4 DEF Following, Dropping
<1> QED BY <1>3, <1>4

LEMMA RestartShows ==
    ASSUME ShowInv, IInv, Restart
    PROVE  ShowInv'
<1> USE DEF ShowInv
<1>1. /\ tokens' = <<StoredToken>> /\ changes' = 0
      /\ info' = IF info = "none" THEN "blank" ELSE info
      /\ serving' = None /\ refresh' = "idle"
      /\ UNCHANGED <<stored, owners, overtaken>>
  BY DEF Restart
<1>2. StoredToken \in Tokens \union {NoToken} /\ StoredToken' = StoredToken
  BY <1>1 DEF IInv, Typing, StoredToken
<1>3. AccountTyping'
  BY <1>1, <1>2 DEF AccountTyping, NoInfo
<1>4. Shown' = Shown
  BY <1>1, NamesDiffer DEF Shown
<1>5. Dropping'
  BY <1>1, <1>4 DEF Dropping
<1>6. tokens' # <<>> /\ tokens'[Len(tokens')] = StoredToken
  BY <1>1
<1>7. Following'
  BY <1>2, <1>6 DEF Following, Expected
<1> QED BY <1>3, <1>5, <1>7

LEMMA ShowPreserved == ShowInv /\ IInv /\ [Next]_vars => ShowInv'
<1> SUFFICES ASSUME ShowInv, IInv, [Next]_vars
             PROVE  ShowInv'
  OBVIOUS
<1>1. ASSUME NEW c \in Callers, Call(c)
      PROVE  ShowInv'
  BY <1>1, CallShows
<1>2. CASE Notify
  BY <1>2, NotifyShows
<1>3. CASE RefreshTake
  BY <1>3, TakeShows
<1>4. CASE RefreshShow
  BY <1>4, ShowShows
<1>5. CASE RefreshLoaded
  BY <1>5, Constants, AnswerShows DEF RefreshLoaded, tokenVars
<1>6. CASE ProfileLoaded
  BY <1>6, Constants, AnswerShows DEF ProfileLoaded, tokenVars
<1>7. CASE \/ \E u \in Users : SignIn(u) \/ \E k \in {"real", "ghost", "facebook"} : SignUp(u, k)
           \/ GrantStep \/ LeaveAccount \/ AccountLeft \/ UpdateProfile \/ ProfileSent
  BY <1>7, AccountShows
<1>8. CASE Restart
  BY <1>8, RestartShows
<1>9. CASE UNCHANGED vars
  BY <1>9, TokenSide DEF vars, authVars, tokenVars, accountVars, StoredToken
<1> QED BY <1>1, <1>2, <1>3, <1>4, <1>5, <1>6, <1>7, <1>8, <1>9
        DEF Next, RefreshStep, UpdateStep

(***************************************************************************)
(* When all is done the application shows the user whose token is stored,  *)
(* or nobody, and no content of another user is cached, unless an answer   *)
(* changed the user that is shown or RefreshAction ended: RefreshAction,   *)
(* the preference's notifications and restarts.                            *)
(***************************************************************************)
THEOREM SignedInUserShown == Spec => []ShowsSignedInUser
<1>1. Init => ShowInv
  BY ShowInitially
<1>2. ShowInv /\ IInv /\ [Next]_vars => ShowInv'
  BY ShowPreserved
<1>3. ShowInv => ShowsSignedInUser
  <2> SUFFICES ASSUME ShowInv, Settled, ~overtaken, refresh # "failed"
               PROVE  Shown = UserOf(StoredToken) /\ owners \subseteq {Shown}
    BY DEF ShowsSignedInUser
  <2>1. changes = 0 /\ tokens = <<>> /\ refresh # "show"
    BY DEF Settled
  <2>2. UserOf(Shown) = UserOf(StoredToken)
    BY <2>1 DEF ShowInv, Following, Expected
  <2> QED BY <2>2, NamesDiffer DEF ShowInv, Dropping
<1> QED BY <1>1, <1>2, <1>3, Invariance, PTL DEF Spec
=================================================================================

--------------------------- MODULE TokenAuthenticator ---------------------------
(***************************************************************************)
(* TokenAuthenticator signs every API request with the last token and      *)
(* renews the token when there is none or when the server answers 401.     *)
(* Calls run on threads of their own.  A call that wants a renewal raises  *)
(* a flag and then takes the monitor: the first one in renews, those that  *)
(* waited find the flag down and go on with whatever token there is now.   *)
(* A sign-in changes the token under the same monitor; signing out, and    *)
(* giving up on a call, change it without.                                 *)
(*                                                                         *)
(* The token is kept twice, in memory and in the preferences; each write   *)
(* of the preferences posts a change notification to the main thread.      *)
(* A token is known here by whose it is: renewing a user's token gives the *)
(* same user another one.  Renewals and sign-ins go to the server by a     *)
(* client without this authenticator.                                      *)
(***************************************************************************)
EXTENDS Naturals

CONSTANTS
    Callers,            \* threads on which API calls are made
    Users,
    None,
    MaxTries,           \* MAX_AUTHENTIFICATION_TRIES
    Budget              \* bound: a 401 of the server costs one, an operation two

ASSUME CallersAssumption == None \notin Callers
ASSUME UsersAssumption ==
    Users \cap {"app", "NO_TOKEN", "removed", "null", "missing", "none", "blank",
                None} = {}
ASSUME TriesAssumption == MaxTries \in Nat \ {0} /\ Budget \in Nat

VARIABLES
    lastToken,          \* the token in memory
    stored,             \* what the preferences hold
    changes,            \* change notifications posted, not yet delivered
    needRenewToken,
    lock,               \* who is inside the monitor
    pc,                 \* per caller: where its call stands
    tries,              \* per caller: responses received for its call, plus one
    header,             \* per caller: the token its request carries
    origin,             \* per caller: what wants the renewal
    old,                \* per caller: the token it renews
    grant,              \* the sign-in or sign-up under way
    leaving,            \* signOut stands between its two writes
    diverged,           \* history: a write without the monitor met another one
    budget              \* what is left of Budget

tokenVars == <<lastToken, stored, changes, diverged>>
monitorVars == <<needRenewToken, lock>>
callVars == <<pc, tries, header, origin, old>>
signVars == <<grant, leaving>>
authVars == <<tokenVars, monitorVars, callVars, signVars>>

NoToken == "NO_TOKEN"
AppToken == "app"
Tokens == Users \union {AppToken}

\* removed from the preferences, or written as the JSON of NO_TOKEN
Empty == {"removed", "null"}
StoredToken == IF stored \in Empty THEN NoToken ELSE stored

Holding == {"renewing", "store", "drop"}
Ended == {"idle", "ok", "failed"}
Steps == Ended \union Holding \union {"check", "attach", "sent", "flag", "enter", "retry"}

Grants == [step : {"idle", "calling", "change", "store", "post", "transfer", "mark",
                   "wait"},
           kind : {"real", "ghost", "facebook", None},
           token : Users \union {None},
           prev : Tokens \union {NoToken, None}]
NoGrant == [step |-> "idle", kind |-> None, token |-> None, prev |-> None]

AuthTypeOK ==
    /\ lastToken \in Tokens \union {NoToken}
    /\ stored \in Tokens \union Empty
    /\ changes \in Nat
    /\ needRenewToken \in BOOLEAN /\ leaving \in BOOLEAN /\ diverged \in BOOLEAN
    /\ lock \in Callers \union {None}
    /\ pc \in [Callers -> Steps]
    /\ tries \in [Callers -> 0..MaxTries + 1]
    /\ header \in [Callers -> Tokens \union {NoToken, None}]
    /\ origin \in [Callers -> {"intercept", "authenticate", None}]
    /\ old \in [Callers -> Tokens \union {NoToken, None}]
    /\ grant \in Grants
    /\ budget \in 0..Budget

\* A process starts with the token t in its preferences.
AuthStart(t) ==
    /\ stored = t
    /\ lastToken = IF t \in Empty THEN NoToken ELSE t
    /\ changes = 0
    /\ needRenewToken = FALSE /\ lock = None
    /\ pc = [c \in Callers |-> "idle"]
    /\ tries = [c \in Callers |-> 0]
    /\ header = [c \in Callers |-> None]
    /\ origin = [c \in Callers |-> None]
    /\ old = [c \in Callers |-> None]
    /\ grant = NoGrant
    /\ leaving = FALSE /\ diverged = FALSE
    /\ budget = Budget

-----------------------------------------------------------------------------
\* SingleObjectRepository: a write that changes the preference is announced.
RemovalUnannounced(v) == v \in Empty
Unannounced(v) == v \in Empty /\ v = stored

Put(v) ==
    /\ stored' = v
    /\ changes' = IF Unannounced(v) THEN changes ELSE changes + 1

Goto(c, step) == pc' = [pc EXCEPT ![c] = step]

Spend(n) == budget >= n /\ budget' = budget - n

\* A call enters the interceptor.
StartCall(c) ==
    /\ Goto(c, "check")
    /\ tries' = [tries EXCEPT ![c] = 1]
    /\ header' = [header EXCEPT ![c] = None]
    /\ UNCHANGED <<origin, old>>

Intercept(c) ==
    /\ pc[c] = "check"
    /\ \/ /\ lastToken = NoToken
          /\ Goto(c, "flag")
          /\ origin' = [origin EXCEPT ![c] = "intercept"]
       \/ /\ lastToken # NoToken
          /\ Goto(c, "attach")
          /\ UNCHANGED origin
    /\ UNCHANGED <<tokenVars, monitorVars, tries, header, old, signVars, budget>>

\* Whatever the renewal came to, the request goes on with the token of now.
Attach(c) ==
    /\ pc[c] = "attach"
    /\ header' = [header EXCEPT ![c] = lastToken]
    /\ origin' = [origin EXCEPT ![c] = None]
    /\ Goto(c, "sent")
    /\ UNCHANGED <<tokenVars, monitorVars, tries, old, signVars, budget>>

Answer(c, outcome) ==
    /\ pc[c] = "sent"
    /\ outcome = "ok" => header[c] # NoToken
    /\ Goto(c, outcome)
    /\ UNCHANGED <<tokenVars, monitorVars, tries, header, origin, old, signVars, budget>>

GivesUp(c) == tries[c] > MaxTries

\* The server answers 401.
Authenticate(c) ==
    /\ pc[c] = "sent"
    /\ Spend(1)
    /\ \/ /\ GivesUp(c)
          /\ Put("null")
          /\ diverged' = TRUE
          /\ Goto(c, "failed")
          /\ UNCHANGED <<lastToken, origin>>
       \/ /\ ~GivesUp(c)
          /\ Goto(c, "flag")
          /\ origin' = [origin EXCEPT ![c] = "authenticate"]
          /\ UNCHANGED tokenVars
    /\ UNCHANGED <<monitorVars, tries, header, old, signVars>>

Retry(c) ==
    /\ pc[c] = "retry"
    /\ header' = [header EXCEPT ![c] = lastToken]
    /\ tries' = [tries EXCEPT ![c] = @ + 1]
    /\ origin' = [origin EXCEPT ![c] = None]
    /\ Goto(c, "sent")
    /\ UNCHANGED <<tokenVars, monitorVars, old, signVars, budget>>

-----------------------------------------------------------------------------
\* reNewToken
AfterRenewal(c, result) ==
    Goto(c, CASE origin[c] = "intercept" -> "attach"
              [] origin[c] # "intercept" /\ result -> "retry"
              [] OTHER -> "failed")

RequestRenewal(c) ==
    /\ pc[c] = "flag"
    /\ needRenewToken' = TRUE
    /\ Goto(c, "enter")
    /\ UNCHANGED <<tokenVars, lock, tries, header, origin, old, signVars, budget>>

MonitorKept(c) == c
MonitorAfterEntry(c) == IF needRenewToken THEN c ELSE None

\* Inside, getNewToken reads the token to renew.
EnterRenewal(c) ==
    /\ pc[c] = "enter"
    /\ lock = None
    /\ lock' = MonitorAfterEntry(c)
    /\ \/ /\ needRenewToken
          /\ Goto(c, "renewing")
          /\ old' = [old EXCEPT ![c] = lastToken]
       \/ /\ ~needRenewToken
          /\ AfterRenewal(c, TRUE)
          /\ UNCHANGED old
    /\ UNCHANGED <<tokenVars, needRenewToken, tries, header, origin, signVars, budget>>

\* A user's token is refreshed; otherwise the application gets one.
Renewed(t) == IF t \in Users THEN t ELSE AppToken

TokenRenewed(c) ==
    /\ pc[c] = "renewing"
    /\ lastToken' = Renewed(old[c])
    /\ diverged' = (diverged \/ leaving)
    /\ Goto(c, "store")
    /\ UNCHANGED <<stored, changes, monitorVars, tries, header, origin, old, signVars,
                   budget>>

\* an unsuccessful answer, one with an error in it, or an IOException
RenewalRefused(c) ==
    /\ pc[c] = "renewing"
    /\ lastToken' = NoToken
    /\ Goto(c, "drop")
    /\ UNCHANGED <<stored, changes, diverged, monitorVars, tries, header, origin, old,
                   signVars, budget>>

RefusedKept(c) == IF pc[c] = "store" THEN Renewed(old[c]) ELSE stored
RenewalWrites(c) == IF pc[c] = "store" THEN Renewed(old[c]) ELSE "removed"

\* The preferences follow, the flag is taken down and the monitor left.
LeaveRenewal(c) ==
    /\ pc[c] \in {"store", "drop"}
    /\ Put(RenewalWrites(c))
    /\ needRenewToken' = FALSE
    /\ lock' = None
    /\ AfterRenewal(c, pc[c] = "store")
    /\ old' = [old EXCEPT ![c] = None]
    /\ UNCHANGED <<lastToken, diverged, tries, header, origin, signVars, budget>>

CallStep(c) ==
    \/ Intercept(c) \/ Attach(c) \/ Authenticate(c) \/ Retry(c)
    \/ Answer(c, "ok") \/ Answer(c, "failed")
    \/ RequestRenewal(c) \/ EnterRenewal(c)
    \/ TokenRenewed(c) \/ RenewalRefused(c) \/ LeaveRenewal(c)

-----------------------------------------------------------------------------
\* authenticate: the server has granted the user u a token, on the thread c.
TokenGranted(u, kind) ==
    grant' = [step |-> "change", kind |-> kind, token |-> u, prev |-> lastToken]

MonitorIgnored == TRUE
MonitorFree == lock = None

\* changeToken
ChangeToken(c) ==
    /\ grant.step = "change"
    /\ MonitorFree
    /\ lock' = c
    /\ lastToken' = grant.token
    /\ diverged' = (diverged \/ leaving)
    /\ grant' = [grant EXCEPT !.step = "store"]
    /\ UNCHANGED <<stored, changes, needRenewToken, callVars, leaving, budget>>

StoreToken ==
    /\ grant.step = "store"
    /\ Put(grant.token)
    /\ lock' = None
    /\ grant' = [grant EXCEPT !.step = "post"]
    /\ UNCHANGED <<lastToken, diverged, needRenewToken, callVars, leaving, budget>>

\* signOut, on any thread
WritingToken == grant.step = "store" \/ \E c \in Callers : pc[c] = "store"

SignOut ==
    /\ ~leaving
    /\ Spend(2)
    /\ leaving' = TRUE
    /\ lastToken' = NoToken
    /\ diverged' = (diverged \/ WritingToken)
    /\ UNCHANGED <<stored, changes, monitorVars, callVars, grant>>

SignOutStored ==
    /\ leaving
    /\ leaving' = FALSE
    /\ Put("removed")
    /\ UNCHANGED <<lastToken, diverged, monitorVars, callVars, grant, budget>>
=================================================================================

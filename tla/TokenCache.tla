------------------------------ MODULE TokenCache ------------------------------
(***************************************************************************)
(* Requests to the QQ platform and the access token they share             *)
(* (internal/qqapi/client.go): a call takes the cached token for each of   *)
(* its attempts; when it is not fresh any more, one caller holds the lock  *)
(* and asks for a new one while the others wait.                           *)
(*                                                                         *)
(* The platform is external: it issues tokens of some lifetime, and the    *)
(* answer to a request may come within the client's timeout, or never.     *)
(* What is requested and the pauses between attempts are left out.         *)
(***************************************************************************)
EXTENDS Integers

CONSTANTS
  Callers,      \* goroutines with a request to send
  Lifetimes,    \* expires_in of the tokens the platform issues
  Margin,       \* tokenRefreshMargin: 50 seconds
  Assumed,      \* the 2 minutes a token is taken to live that says too little
  Timeout,      \* the HTTP client's 10 seconds
  Attempts,     \* maxAttempts
  MaxIssued,    \* bound: tokens
  LastSecond    \* bound: the clock stops

ASSUME TokenAssumption ==
  /\ Lifetimes \subseteq Nat /\ Margin \in Nat /\ Assumed \in Nat /\ Timeout \in Nat
  /\ Attempts \in Nat \ {0} /\ MaxIssued \in Nat /\ LastSecond \in Nat
  /\ 2 * Timeout <= Margin
ASSUME NobodyAssumption == "nobody" \notin Callers

Nobody == "nobody"
NoToken == 0
Ids == 1..MaxIssued

VARIABLES
  second,
  token, expireAt,  \* the cache
  holder,       \* who has the write lock
  pc,           \* pc[c]: where the goroutine is
  tries,        \* tries[c]: attempts of its call
  asks,         \* asks[c]: attempts of its token request
  has,          \* has[c]: the token it was given or is being sent
  since,        \* since[c]: when it was
  issued, life, dies    \* the platform: how many tokens, what it says of each

tokenVars == <<second, token, expireAt, holder, pc, tries, asks, has, since, issued, life, dies>>
cacheVars == <<token, expireAt>>
platformVars == <<issued, life, dies>>

TokenInit ==
  /\ second = 0
  /\ token = NoToken /\ expireAt = 0 /\ holder = Nobody
  /\ pc = [c \in Callers |-> "idle"]
  /\ tries = [c \in Callers |-> 1] /\ asks = [c \in Callers |-> 1]
  /\ has = [c \in Callers |-> NoToken] /\ since = [c \in Callers |-> 0]
  /\ issued = 0
  /\ life = [i \in Ids |-> 0] /\ dies = [i \in Ids |-> 0]

--------------------------------------------------------------------------------
Fresh == token # NoToken /\ second < expireAt
Goes(c, to) == pc' = [pc EXCEPT ![c] = to]

(* The call leaves AccessToken with the cached token and sends its request.*)
Takes(c, t) ==
  /\ Goes(c, "send")
  /\ has' = [has EXCEPT ![c] = t] /\ since' = [since EXCEPT ![c] = second]

Call(c) ==
  /\ pc[c] = "idle" /\ Goes(c, "ask")
  /\ tries' = [tries EXCEPT ![c] = 1]
  /\ UNCHANGED <<second, cacheVars, holder, asks, has, since, platformVars>>

(* Under the read lock, which nobody has while another holds the other.    *)
Ask(c) ==
  /\ pc[c] = "ask" /\ holder = Nobody
  /\ IF Fresh THEN Takes(c, token) ELSE Goes(c, "wait") /\ UNCHANGED <<has, since>>
  /\ UNCHANGED <<second, cacheVars, holder, tries, asks, platformVars>>

\* A mutant: who waited for the lock asks for a token in any case.
RefreshedUnseen == FALSE

(* Under the write lock: another one may have refreshed it.                *)
Refreshed == Fresh
Lock(c) ==
  /\ pc[c] = "wait" /\ holder = Nobody
  /\ IF Refreshed THEN Takes(c, token) /\ UNCHANGED <<holder, asks>>
     ELSE /\ Goes(c, "fetch") /\ holder' = c
          /\ asks' = [asks EXCEPT ![c] = 1]
          /\ UNCHANGED <<has, since>>
  /\ UNCHANGED <<second, cacheVars, tries, platformVars>>

(* The platform gets the token request.                                    *)
Issue(c) ==
  /\ pc[c] = "fetch" /\ issued < MaxIssued
  /\ issued' = issued + 1
  /\ \E n \in Lifetimes :
       /\ life' = [life EXCEPT ![issued + 1] = n]
       /\ dies' = [dies EXCEPT ![issued + 1] = second + n]
  /\ Goes(c, "reply")
  /\ has' = [has EXCEPT ![c] = issued + 1] /\ since' = [since EXCEPT ![c] = second]
  /\ UNCHANGED <<second, cacheVars, holder, tries, asks>>

(* Its answer is in the cache before the lock is released.                 *)
Lasts(n) == (IF n <= Margin THEN Assumed ELSE n) - Margin
Reply(c) ==
  /\ pc[c] = "reply"
  /\ token' = has[c] /\ expireAt' = second + Lasts(life[has[c]])
  /\ holder' = Nobody
  /\ Takes(c, has[c])
  /\ UNCHANGED <<second, tries, asks, platformVars>>

(* No answer, or one that tells to try again; or a refusal, an answer      *)
(* without a token, the last attempt, the end of the context: the call has *)
(* failed.                                                                 *)
FetchAgain(c) ==
  /\ pc[c] \in {"fetch", "reply"} /\ asks[c] < Attempts
  /\ Goes(c, "fetch") /\ asks' = [asks EXCEPT ![c] = @ + 1]
  /\ UNCHANGED <<second, cacheVars, holder, tries, has, since, platformVars>>
FetchFails(c) ==
  /\ pc[c] \in {"fetch", "reply"}
  /\ Goes(c, "idle") /\ holder' = Nobody
  /\ UNCHANGED <<second, cacheVars, tries, asks, has, since, platformVars>>

(* request, after its attempt: over, or another one with a token of then.  *)
Done(c) ==
  /\ pc[c] = "send" /\ Goes(c, "idle")
  /\ UNCHANGED <<second, cacheVars, holder, tries, asks, has, since, platformVars>>
Again(c) ==
  /\ pc[c] = "send" /\ tries[c] < Attempts
  /\ Goes(c, "ask") /\ tries' = [tries EXCEPT ![c] = @ + 1]
  /\ UNCHANGED <<second, cacheVars, holder, asks, has, since, platformVars>>

(* A second passes; no request is on its way for longer than the timeout.  *)
Second ==
  /\ second < LastSecond
  /\ \A c \in Callers : pc[c] \in {"reply", "send"} => second < since[c] + Timeout
  /\ second' = second + 1
  /\ UNCHANGED <<cacheVars, holder, pc, tries, asks, has, since, platformVars>>

TokenNext ==
  \/ \E c \in Callers :
       \/ Call(c) \/ Ask(c) \/ Lock(c) \/ Issue(c) \/ Reply(c)
       \/ FetchAgain(c) \/ FetchFails(c) \/ Done(c) \/ Again(c)
  \/ Second

TokenSpec == TokenInit /\ [][TokenNext]_tokenVars

--------------------------------------------------------------------------------
(* However many calls find the token stale at once, and however slow the   *)
(* platform is: nobody asks it for a token while one is fresh, and a       *)
(* request that is on its way carries a token the platform still accepts   *)
(* (of those it issued for longer than the margin; a shorter one is taken  *)
(* to live 2 minutes, client.go:76).  (AccessToken, request.)              *)
TokenServesAll ==
  \A c \in Callers :
    /\ pc[c] = "fetch" => ~Fresh
    /\ pc[c] = "send" /\ life[has[c]] > Margin => second < dies[has[c]]

================================================================================

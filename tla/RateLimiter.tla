----------------------------- MODULE RateLimiter -----------------------------
(* The sign-in budgets (internal/server/auth_rate_limit.go): a table of keys   *)
(* with a fixed window each, and the sign-ins that ask it before and tell it   *)
(* after comparing a password (createSession of auth_tokens.go).               *)
EXTENDS Integers, FiniteSets

CONSTANTS
    Username,       \* keys spent only by failed password sign-ins
    Account,        \* keys every attempt spends
    Limit, Capacity, Window,
    Guesser         \* sign-ins handled at the same time

Key == Username \cup Account
Nobody == "nobody"

ASSUME LimiterAssumption ==
    /\ Limit \in Nat \ {0} /\ Capacity \in Nat \ {0} /\ Window \in Nat \ {0}
    /\ Username \cap Account = {} /\ Nobody \notin Username
    /\ IsFiniteSet(Guesser)

VARIABLES
    count,          \* what each key has spent in its window; 0: no entry
    left,           \* what is left of the window
    guess,          \* the username each sign-in compares a password for
    tries           \* history: attempts since the window began, told or not

limiterVars == <<count, left, guess, tries>>

LimiterInit ==
    /\ count = [k \in Key |-> 0] /\ left = [k \in Key |-> 0]
    /\ guess = [g \in Guesser |-> Nobody]
    /\ tries = [k \in Key |-> 0]

entries == {k \in Key : count[k] > 0}
Expired == {k \in entries : left[k] = 0}

\* Mutant: one failure too many before a sign-in is refused.
SpentLate(k) == k \in entries \ Expired /\ count[k] > Limit

\* blocked, and the refusal of allow.
Spent(k) == k \in entries \ Expired /\ count[k] >= Limit

\* Mutant: a table that is full takes no new key.
FullRefuses(k) == ~Spent(k) /\ (k \in entries \/ Cardinality(entries) < Capacity)

Admits(k) == ~Spent(k)

\* Mutant: nothing makes room for a new key.
RoomNever(k) == {{}}

\* What a new key deletes: its own expired entry, or, of a full table, the
\* expired entries, or else one whose window ends soonest.
Room(k) ==
    CASE k \in entries -> {{k}}
      [] k \notin entries /\ Cardinality(entries) < Capacity -> {{}}
      [] k \notin entries /\ Cardinality(entries) >= Capacity ->
           IF Expired # {} THEN {Expired}
           ELSE {{j} : j \in {i \in entries : \A h \in entries : left[i] <= left[h]}}

\* allow: counts an attempt of key k.
Count(k) ==
    IF k \in entries \ Expired
      THEN /\ count' = [count EXCEPT ![k] = @ + 1]
           /\ tries' = [tries EXCEPT ![k] = @ + 1]
           /\ UNCHANGED left
      ELSE \E gone \in Room(k) :
             /\ count' = [j \in Key |-> IF j = k THEN 1
                                        ELSE IF j \in gone THEN 0 ELSE count[j]]
             /\ left' = [j \in Key |-> IF j = k THEN Window
                                       ELSE IF j \in gone THEN 0 ELSE left[j]]
             /\ tries' = [j \in Key |-> IF j = k THEN 1
                                        ELSE IF j \in gone THEN 0 ELSE tries[j]]

\* A refused failure is not counted; only the history knows of it.
Refuse(k) ==
    /\ tries' = [tries EXCEPT ![k] = @ + 1]
    /\ UNCHANGED <<count, left>>

\* allowAuthIdentifier, allowAuthIP
Attempt(k) ==
    /\ Admits(k)
    /\ Count(k)
    /\ UNCHANGED guess

\* passwordLoginBlocked lets the sign-in compare its password.
BeginGuess(g, k) ==
    /\ guess[g] = Nobody /\ ~Spent(k)
    /\ guess' = [guess EXCEPT ![g] = k]
    /\ UNCHANGED <<count, left, tries>>

\* notePasswordLoginFailure
FailGuess(g) ==
    /\ guess[g] # Nobody
    /\ IF Admits(guess[g]) THEN Count(guess[g]) ELSE Refuse(guess[g])
    /\ guess' = [guess EXCEPT ![g] = Nobody]

\* A sign-in that succeeds spends nothing.
Succeed(g) ==
    /\ guess[g] # Nobody
    /\ guess' = [guess EXCEPT ![g] = Nobody]
    /\ UNCHANGED <<count, left, tries>>

\* Time passes.  An entry stays in the table when its window ends.
Tick ==
    /\ entries \ Expired # {}
    /\ left' = [k \in Key |-> IF left[k] > 0 THEN left[k] - 1 ELSE 0]
    /\ tries' = [k \in Key |-> IF left[k] = 1 THEN 0 ELSE tries[k]]
    /\ UNCHANGED <<count, guess>>

LimiterNext ==
    \/ \E k \in Account : Attempt(k)
    \/ \E g \in Guesser :
         \/ \E k \in Username : BeginGuess(g, k)
         \/ FailGuess(g) \/ Succeed(g)
    \/ Tick

LimiterSpec == LimiterInit /\ [][LimiterNext]_limiterVars

-------------------------------------------------------------------------------
LimiterTypeOK ==
    /\ count \in [Key -> 0..Limit] /\ left \in [Key -> 0..Window]
    /\ guess \in [Guesser -> Username \cup {Nobody}]
    /\ tries \in [Key -> 0..Limit + Cardinality(Guesser)]
    /\ Cardinality(entries) <= Capacity

\* Sign-ins handled at the same time may all pass before one of them has failed;
\* even so, no more passwords for one username fail in one window than the limit
\* and the other sign-ins in flight.  (A window that a full table forgets ends
\* there, as the comment at auth_rate_limit.go:19 accepts.)
GuessesBounded ==
    \A k \in Username : tries[k] <= Limit - 1 + Cardinality(Guesser)

\* A flood of new keys does not turn the limiter into a refusal for everyone
\* else (auth_rate_limit.go:18-21): what is refused has itself spent its limit.
FloodHarmsNobody ==
    \A k \in Key : ~Admits(k) => tries[k] >= Limit
===============================================================================

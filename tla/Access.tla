------------------------------- MODULE Access -------------------------------
(***************************************************************************)
(* Who may use the API server: the login with its rate limiter             *)
(* (internal/auth), the sessions kept in memory with a sliding expiry, the *)
(* password file and its changes from a browser and from the command line, *)
(* and the two background cleanups.                                        *)
(*                                                                         *)
(* Time is counted in ticks; one refill of the limiter is one tick. A      *)
(* request holds no lock between the steps of a login or of a password     *)
(* change, so each is an action per step; a browser is bound to one of     *)
(* them at a time. os.WriteFile truncates the password file before it      *)
(* writes it, so the file is Empty in between, and stays so if the server  *)
(* dies there.                                                             *)
(***************************************************************************)
EXTENDS Naturals, Functions, FiniteSetsExt

CONSTANTS
    Browser,        \* the browsers that log in
    ClientIP,       \* the address of each
    Cli,            \* a command line on the same machine
    Password,       \* passwords of at least eight characters
    Empty,          \* what a password file holds while it is rewritten
    TTL,            \* sessionTTL
    CookieAge,      \* MaxAge of the session cookie
    MaxSessions,    \* maxSessions
    Burst,          \* attempts an address starts with
    IdleFor,        \* an entry of the limiter idle for longer is dropped
    LastTick, LastToken  \* bounds of the model

\* An address that has rested long enough to be dropped has a full bucket: an
\* hour against five attempts, of which one comes back every minute.
ASSUME AccessAssumption ==
    /\ ClientIP \in [Browser -> Range(ClientIP)]
    /\ TTL \in Nat /\ CookieAge \in Nat /\ MaxSessions \in Nat
    /\ Burst \in Nat /\ IdleFor \in Nat /\ Burst <= IdleFor + 1
    /\ LastTick \in Nat /\ LastToken \in Nat

NoCookie == [token |-> 0, until |-> 0]
Idle == [at |-> "idle"]
Address == Range(ClientIP)

VARIABLES
    file,       \* auth.yaml: the password it holds the hash of
    sessions,   \* SessionStore.sessions: token -> lastSeenAt
    cookie,     \* what each browser holds
    doing,    \* the login or password change of each browser, and of Cli
    limiters,   \* IPRateLimiter.limiters
    clock,
    issued,     \* tokens issued so far
    \* what a reader remembers, and the server does not:
    used,       \* when each token last opened the server
    ended,      \* tokens whose session was ended on purpose or by a restart
    bucket      \* a bucket per address that is never dropped

accessVars == <<file, sessions, cookie, doing, limiters, clock, issued,
          used, ended, bucket>>

\* A map with one more entry, or another one.
With(f, k, v) == [x \in DOMAIN f \cup {k} |-> IF x = k THEN v ELSE f[x]]

Full == [tokens |-> Burst, at |-> clock]

AccessInit ==
    /\ file \in Password
    /\ sessions = <<>>
    /\ cookie = [b \in Browser |-> NoCookie]
    /\ doing = [c \in Browser \cup {Cli} |-> Idle]
    /\ limiters = <<>>
    /\ clock = 0
    /\ issued = 0
    /\ used = <<>>
    /\ ended = {}
    /\ bucket = [ip \in Address |-> [tokens |-> Burst, at |-> 0]]

(* ------------------------------ the limiter ---------------------------- *)

\* What a bucket holds now: it refills by one each tick, up to Burst.
Refilled(entry) == Min({Burst, entry.tokens + (clock - entry.at)})

Entry(ip) == IF ip \in DOMAIN limiters THEN limiters[ip] ELSE Full

\* One attempt taken from a bucket, if it has one.
Taken(entry) ==
    [tokens |-> Refilled(entry) - Min({1, Refilled(entry)}), at |-> clock]

Allow(ip) == Refilled(Entry(ip)) > 0

CleanupLimiters ==
    /\ limiters' = Restrict(limiters,
                       {ip \in DOMAIN limiters :
                            clock - limiters[ip].at <= IdleFor})
    /\ UNCHANGED <<file, sessions, cookie, doing, clock, issued, used,
                   ended, bucket>>

(* ------------------------------ the sessions --------------------------- *)

Fresh(token) == clock - sessions[token] <= TTL

\* Bug: a session expires a fixed time after its login.
AfterLooking(token) ==
    IF token \notin DOMAIN sessions THEN sessions
    ELSE IF Fresh(token) THEN sessions
    ELSE Restrict(sessions, DOMAIN sessions \ {token})

\* What validate leaves in the store for a token a request carries.
AfterValidate(token) ==
    IF token \notin DOMAIN sessions THEN sessions
    ELSE IF Fresh(token) THEN [sessions EXCEPT ![token] = clock]
    ELSE Restrict(sessions, DOMAIN sessions \ {token})

\* The cookie a request of browser b carries; the browser drops an old one.
Carried(b) == IF clock <= cookie[b].until THEN cookie[b].token ELSE 0

Valid(token) == token \in DOMAIN sessions /\ Fresh(token)

authCheck(b) == Valid(Carried(b))

\* Any request of the API that the session cookie is to open.
ValidateRequest(b) ==
    /\ Carried(b) # 0
    /\ sessions' = AfterValidate(Carried(b))
    /\ used' = IF authCheck(b) THEN [used EXCEPT ![Carried(b)] = clock]
               ELSE used
    /\ UNCHANGED <<file, cookie, doing, limiters, clock, issued, ended,
                   bucket>>

CleanupSessions ==
    /\ sessions' = Restrict(sessions, {t \in DOMAIN sessions : Fresh(t)})
    /\ UNCHANGED <<file, cookie, doing, limiters, clock, issued, used,
                   ended, bucket>>

Logout(b) ==
    /\ sessions' = Restrict(sessions, DOMAIN sessions \ {Carried(b)})
    /\ ended' = IF Carried(b) = 0 THEN ended ELSE ended \cup {Carried(b)}
    /\ cookie' = [cookie EXCEPT ![b] = NoCookie]
    /\ UNCHANGED <<file, doing, limiters, clock, issued, used, bucket>>

(* ------------------------------- the login ----------------------------- *)

\* The limiter is asked first, and counts the attempt whatever comes of it.
LoginStarts(b, password) ==
    LET ip == ClientIP[b]
    IN  /\ doing[b] = Idle
        /\ limiters' = With(limiters, ip, Taken(Entry(ip)))
        /\ bucket' = [bucket EXCEPT ![ip] = Taken(@)]
        /\ doing' = [doing EXCEPT
               ![b] = IF Allow(ip) THEN [at |-> "verify", password |-> password]
                      ELSE Idle]
        /\ UNCHANGED <<file, sessions, cookie, clock, issued, used,
                       ended>>

VerifyPassword(b) ==
    /\ doing[b].at = "verify"
    /\ doing' = [doing EXCEPT
           ![b] = IF doing[b].password = file THEN [at |-> "count"] ELSE Idle]
    /\ UNCHANGED <<file, sessions, cookie, limiters, clock, issued,
                   used, ended, bucket>>

LoginCounts(b) ==
    /\ doing[b].at = "count"
    /\ doing' = [doing EXCEPT
           ![b] = IF Cardinality(DOMAIN sessions) >= MaxSessions THEN Idle
                  ELSE [at |-> "create"]]
    /\ UNCHANGED <<file, sessions, cookie, limiters, clock, issued,
                   used, ended, bucket>>

LoginCreates(b) ==
    /\ doing[b].at = "create"
    /\ issued < LastToken
    /\ issued' = issued + 1
    /\ sessions' = With(sessions, issued', clock)
    /\ used' = With(used, issued', clock)
    /\ cookie' = [cookie EXCEPT
           ![b] = [token |-> issued', until |-> clock + CookieAge]]
    /\ doing' = [doing EXCEPT ![b] = Idle]
    /\ UNCHANGED <<file, limiters, clock, ended, bucket>>

(* --------------------------- the password file ------------------------- *)

\* A change is accepted if the file holds the password it calls the current
\* one; what it then writes is decided here.
Accepted(current, new) ==
    IF current = file THEN [at |-> "truncate", password |-> new] ELSE Idle

\* From a browser, past the session check.
ChangePassword(b, current, new) ==
    /\ doing[b] = Idle
    /\ authCheck(b)
    /\ sessions' = AfterValidate(Carried(b))
    /\ used' = [used EXCEPT ![Carried(b)] = clock]
    /\ doing' = [doing EXCEPT ![b] = Accepted(current, new)]
    /\ UNCHANGED <<file, cookie, limiters, clock, issued, ended, bucket>>

\* "auth reset" with the current password as its argument; without one it
\* panics before it writes anything.
AuthReset(current, new) ==
    /\ doing[Cli] = Idle
    /\ doing' = [doing EXCEPT ![Cli] = Accepted(current, new)]
    /\ UNCHANGED <<file, sessions, cookie, limiters, clock, issued, used, ended,
                   bucket>>

FileTruncated(c) ==
    /\ doing[c].at = "truncate"
    /\ file' = Empty
    /\ doing' = [doing EXCEPT ![c].at = "write"]
    /\ UNCHANGED <<sessions, cookie, limiters, clock, issued, used,
                   ended, bucket>>

\* The command line is done when the file is written: the sessions are in
\* another process.
FileWritten(c) ==
    /\ doing[c].at = "write"
    /\ file' = doing[c].password
    /\ doing' = [doing EXCEPT
           ![c] = IF c = Cli THEN Idle ELSE [at |-> "invalidate"]]
    /\ UNCHANGED <<sessions, cookie, limiters, clock, issued, used,
                   ended, bucket>>

InvalidateAll(b) ==
    /\ doing[b].at = "invalidate"
    /\ ended' = ended \cup DOMAIN sessions
    /\ sessions' = <<>>
    /\ cookie' = [cookie EXCEPT ![b] = NoCookie]
    /\ doing' = [doing EXCEPT ![b] = Idle]
    /\ UNCHANGED <<file, limiters, clock, issued, used, bucket>>

(* ---------------------------- time and restarts ------------------------ *)

Tick ==
    /\ clock < LastTick
    /\ clock' = clock + 1
    /\ UNCHANGED <<file, sessions, cookie, doing, limiters, issued,
                   used, ended, bucket>>

\* The server stops and starts: all it kept in memory is gone.
Restart ==
    /\ ended' = 1 .. issued
    /\ sessions' = <<>>
    /\ limiters' = <<>>
    /\ bucket' = [ip \in Address |-> Full]
    /\ doing' = [c \in Browser \cup {Cli} |->
                      IF c = Cli THEN doing[c] ELSE Idle]
    /\ UNCHANGED <<file, cookie, clock, issued, used>>

BrowserStep(b) ==
    \/ \E p \in Password : LoginStarts(b, p)
    \/ VerifyPassword(b) \/ LoginCounts(b) \/ LoginCreates(b)
    \/ \E current, new \in Password : ChangePassword(b, current, new)
    \/ ValidateRequest(b) \/ Logout(b) \/ InvalidateAll(b)

AccessNext ==
    \/ \E b \in Browser : BrowserStep(b)
    \/ \E current, new \in Password : AuthReset(current, new)
    \/ \E c \in Browser \cup {Cli} : FileTruncated(c) \/ FileWritten(c)
    \/ CleanupSessions \/ CleanupLimiters \/ Tick \/ Restart

AccessSpec == AccessInit /\ [][AccessNext]_accessVars

(* ------------------------------ properties ----------------------------- *)

\* "30 days inactivity expiry" (internal/auth/store.go): a session that was
\* used within the expiry is in the store, whatever the cleanup and the other
\* requests did, unless it was logged out, a password change ended it or the
\* server was restarted.
SessionsLast ==
    \A t \in 1 .. issued :
        t \in ended \/ clock - used[t] > TTL \/ t \in DOMAIN sessions

\* Dropping the entries of idle addresses gives nobody an attempt more or
\* less: each address has what a bucket that is never dropped would give it.
\* The cleanup and the refill are tuned to each other and to nothing else.
IdleEntriesAreFull ==
    \A ip \in Address : Refilled(Entry(ip)) = Refilled(bucket[ip])

\* What the server keeps in memory is neither dropped too early nor too late.
AccessIsKept == SessionsLast /\ IdleEntriesAreFull
=============================================================================

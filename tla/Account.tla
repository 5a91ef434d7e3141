------------------------------- MODULE Account -------------------------------
(***************************************************************************)
(* The admin's account: the password, the one-time setup and the sessions  *)
(* (SessionManager of app/core/security.py, bootstrap and the handlers of  *)
(* app/main.py), all of them rows of the settings table.                   *)
(*                                                                         *)
(* Login, setup and the change of the password are coroutines of one event *)
(* loop that await the request's body after their first check; rotating    *)
(* the sessions runs in a pool thread.  Every statement commits alone, and *)
(* the process may stop between two of them.  A token is told by the       *)
(* secret that signed it: its expiry, the cookie's flags, the audit log    *)
(* and the limiter (Limiter) are left out.                                 *)
(***************************************************************************)
EXTENDS Naturals

CONSTANTS
    Handlers,    \* calls the event loop is in the middle of
    Passwords,
    EnvPassword, \* settings.admin_password: "admin" by default, None when it is set empty
    Initial,     \* the password bootstrap() stores when there is none: "admin"
    LongEnough,  \* passwords of 8 characters and more
    Strong,      \* ... of 16 and more
    None,
    MaxSecrets, MaxCrashes  \* bounds

VARIABLES
    up,        \* the process serves
    password,  \* settings admin_password, None when there is no row
    secret,    \* settings jwt_secret; 0 when there is no row
    complete,  \* settings bootstrap_complete: None, "0" or "1"
    calls,     \* what each handler awaits, or has left to do
    asked,     \* ... the password a setup was given
    tokens,    \* the secrets that signed tokens still in browsers
    signedOut, \* history: the tokens there were when the sessions were last ended
    crashes

stored == <<password, secret, complete>>
vars == <<up, stored, calls, asked, tokens, signedOut, crashes>>

\* _setting('admin_password') or settings.admin_password
Admin == IF password = None THEN EnvPassword ELSE password

\* A synchronous stretch of a coroutine runs to its end before the loop goes on.
Looping == up /\ \A h \in Handlers : calls[h] # "closing"
Becomes(h, stage) == calls' = [calls EXCEPT ![h] = stage]

Arrives(h, call) ==
    /\ Looping /\ calls[h] = "idle"
    /\ Becomes(h, call)
    /\ UNCHANGED <<up, stored, asked, tokens, signedOut, crashes>>

-----------------------------------------------------------------------------
(* Sessions.                                                               *)

verify(t) == t = secret
\* A call carries a password or a token.
auth(supplied, t) == supplied = Admin \/ verify(t)
Authorised == \E supplied \in Passwords, t \in tokens \cup {0} : auth(supplied, t)

\* POST /api/login: the right password gets a token, a wrong one nothing.
LoginArrives(h) == Arrives(h, "login")
LoginAnswered(h) ==
    /\ Looping /\ calls[h] = "login"
    /\ \E supplied \in Passwords :
        tokens' = IF supplied = Admin THEN tokens \cup {secret} ELSE tokens
    /\ Becomes(h, "idle")
    /\ UNCHANGED <<up, stored, asked, signedOut, crashes>>

\* POST /api/settings/rotate-session: a secret never used before.
RotateSession ==
    /\ up /\ Authorised /\ secret < MaxSecrets
    /\ secret' = secret + 1
    /\ signedOut' = tokens
    /\ UNCHANGED <<up, password, complete, calls, asked, tokens, crashes>>

-----------------------------------------------------------------------------
(* POST /api/settings/password: signed in, then the body, then the current *)
(* password.                                                               *)

PasswordArrives(h) == Authorised /\ Arrives(h, "password")
ChangePassword(h) ==
    /\ Looping /\ calls[h] = "password"
    /\ \E current, new \in Passwords :
        password' = IF current = Admin /\ new \in LongEnough /\ new # current THEN new ELSE password
    /\ Becomes(h, "idle")
    /\ UNCHANGED <<up, secret, complete, asked, tokens, signedOut, crashes>>

-----------------------------------------------------------------------------
(* POST /api/setup/admin.  Its third statement drops a row nothing writes. *)

SetupArrives(h) == complete # "1" /\ Arrives(h, "setup")

\* UPDATE settings SET value=? WHERE key='admin_password': nothing without a row.
SetupSaves(h) ==
    /\ Looping /\ calls[h] = "setup"
    /\ \E new \in Passwords :
        IF new \in Strong
        THEN /\ password' = IF password = None THEN None ELSE new
             /\ asked' = [asked EXCEPT ![h] = new]
             /\ Becomes(h, "closing")
        ELSE Becomes(h, "idle") /\ UNCHANGED <<password, asked>>
    /\ UNCHANGED <<up, secret, complete, tokens, signedOut, crashes>>

SetupCloses(h) ==
    /\ up /\ calls[h] = "closing"
    /\ complete' = "1"
    /\ Becomes(h, "idle")
    /\ UNCHANGED <<up, password, secret, asked, tokens, signedOut, crashes>>

(***************************************************************************)
(* The process.  bootstrap() fills in what was never stored, one statement *)
(* after the other: the secret; a password, if the configuration has none; *)
(* the mark.                                                               *)
(***************************************************************************)
Boot ==
    /\ ~up
    /\ secret' = IF secret = 0 THEN 1 ELSE secret
    /\ LET filled == IF Admin = None THEN Initial ELSE password IN
       \/ /\ password' = filled
          /\ complete' = IF complete = None THEN "0" ELSE complete
          /\ up' = TRUE
          /\ UNCHANGED crashes
       \/ /\ password' \in {password, filled}
          /\ crashes < MaxCrashes
          /\ crashes' = crashes + 1
          /\ UNCHANGED <<complete, up>>
    /\ UNCHANGED <<calls, asked, tokens, signedOut>>

Crash ==
    /\ up /\ crashes < MaxCrashes
    /\ up' = FALSE /\ crashes' = crashes + 1
    /\ calls' = [h \in Handlers |-> "idle"]
    /\ UNCHANGED <<stored, asked, tokens, signedOut>>

Init ==
    /\ up = FALSE
    /\ password = None /\ secret = 0 /\ complete = None
    /\ calls = [h \in Handlers |-> "idle"] /\ asked = [h \in Handlers |-> None]
    /\ tokens = {} /\ signedOut = {}
    /\ crashes = 0

Next ==
    \/ \E h \in Handlers :
        \/ LoginArrives(h) \/ LoginAnswered(h)
        \/ PasswordArrives(h) \/ ChangePassword(h)
        \/ SetupArrives(h) \/ SetupSaves(h) \/ SetupCloses(h)
    \/ RotateSession \/ Boot \/ Crash

Spec == Init /\ [][Next]_vars

-----------------------------------------------------------------------------
(* Properties.                                                             *)

\* setup_admin is there to "change the generated password" (main.py:1180): when it
\* answers that it did, the password it was given is the one that signs in.
SetupTakesEffect ==
    [][\A h \in Handlers : SetupCloses(h) => Admin' = asked[h]]_vars

\* Signing everyone out ends exactly the sessions there were: none of them is
\* accepted again, after a restart either, and no session signed since ends with
\* them (rotate_session, main.py:1941-1944; bootstrap, 303-304).
SignOutExact == up => \A t \in tokens : verify(t) <=> t \notin signedOut
=============================================================================

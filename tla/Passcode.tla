-------------------------------- MODULE Passcode --------------------------------
(***************************************************************************)
(* The passcode of the mobile/desktop app (apps/native/lib/main.dart): it  *)
(* is asked for on the unlock screen, and again before a send when the     *)
(* device has no authenticator of its own.  Both share one lockout, which  *)
(* the preferences keep.  What it guards is the send page of NativeWallet. *)
(*                                                                         *)
(* A lock ends in one step; time without a lock changes nothing.  The      *)
(* device's clock does not jump.                                           *)
(***************************************************************************)
EXTENDS NativeWallet

CONSTANTS
    FreeMisses,    \* wrong codes up to the first lock: 5
    FirstLock,     \* its length: 30 seconds
    MaxDoublings,  \* 7
    MaxLock,       \* the longest lock: 3600 seconds
    MaxMisses      \* bound: wrong codes in a row

ASSUME PasscodeAssumption ==
    /\ FreeMisses \in Nat \ {0} /\ FirstLock \in Nat
    /\ MaxDoublings \in Nat /\ MaxLock \in Nat /\ MaxMisses \in Nat
    /\ FirstLock * 2^MaxDoublings >= MaxLock  \* 30 * 2^7 = 3840 > 3600

VARIABLES
    hasCode,   \* the preferences: whether there is a code,
    fails,     \* wrong codes in a row,
    lockFor,   \* and what is left until codeLockUntil
    first,     \* the unlock screen: a new code was typed once
    unlocked,
    misses,    \* history: wrong codes since the last right one
    waited     \* history: locks sat out since the last of them

gate == <<hasCode, fails, lockFor, first, unlocked, misses, waited>>
appVars == <<vars, gate>>

AppInit ==
    /\ Init
    /\ hasCode = FALSE /\ fails = 0 /\ lockFor = 0
    /\ first = FALSE /\ unlocked = FALSE
    /\ misses = 0 /\ waited = 0

Lesser(a, b) == IF a < b THEN a ELSE b

\* checkCode(): during a lock nothing is compared, not even the right code.
Compared == lockFor = 0

LockAfter(n) ==
    IF n >= FreeMisses
    THEN Lesser(FirstLock * 2^Lesser(n - FreeMisses, MaxDoublings), MaxLock)
    ELSE 0

RightCode ==
    /\ Compared
    /\ fails' = 0 /\ misses' = 0 /\ waited' = 0
    /\ UNCHANGED <<hasCode, lockFor, first>>
WrongCode ==
    /\ Compared /\ misses < MaxMisses
    /\ fails' = fails + 1
    /\ lockFor' = LockAfter(fails')
    /\ misses' = misses + 1 /\ waited' = 0
    /\ UNCHANGED <<hasCode, first, unlocked>>

LockEnds ==
    /\ lockFor > 0
    /\ lockFor' = 0 /\ waited' = waited + lockFor
    /\ UNCHANGED <<vars, hasCode, fails, first, unlocked, misses>>

-----------------------------------------------------------------------------
(***************************************************************************)
(* The unlock screen.                                                      *)
(***************************************************************************)

\* A new code is typed twice; if the two differ, one starts again.
TypeNewCode ==
    /\ ~unlocked /\ ~hasCode
    /\ \/ ~first /\ first' = TRUE /\ UNCHANGED <<hasCode, unlocked>>
       \/ first /\ first' = FALSE /\ UNCHANGED <<hasCode, unlocked>>
       \/ first /\ hasCode' = TRUE /\ unlocked' = TRUE /\ UNCHANGED first
    /\ UNCHANGED <<vars, fails, lockFor, misses, waited>>

TypeCode ==
    /\ ~unlocked /\ hasCode
    /\ (RightCode /\ unlocked' = TRUE) \/ WrongCode
    /\ UNCHANGED vars

\* Fingerprint or face: the lockout plays no part in it.
Biometrics ==
    /\ ~unlocked /\ hasCode
    /\ unlocked' = TRUE
    /\ UNCHANGED <<vars, hasCode, fails, lockFor, first, misses, waited>>

-----------------------------------------------------------------------------
(***************************************************************************)
(* The send page behind it.                                                *)
(***************************************************************************)

\* After the dialog of a send: the device's authenticator decides, or the code (_askCode).
Authorise(p) ==
    /\ Confirm(p)
    /\ UNCHANGED gate \/ (RightCode /\ UNCHANGED unlocked)
Refuse(p) ==
    /\ Cancel(p)
    /\ UNCHANGED gate \/ WrongCode

\* A restart locks the app; what the preferences hold survives it.
ForgottenByRestart(n) == 0  \* for a mutant run
KeptByRestart(n) == n
Restart ==
    /\ Crash
    /\ fails' = KeptByRestart(fails)
    /\ first' = FALSE /\ unlocked' = FALSE
    /\ UNCHANGED <<hasCode, lockFor, misses, waited>>

AppNext ==
    \/ \E p \in Pages :
        \/ unlocked /\ OpenPage(p) /\ UNCHANGED gate
        \/ Authorise(p) \/ Refuse(p)
        \/ Proceeds(p) /\ UNCHANGED gate
    \/ (LeavePage \/ World) /\ UNCHANGED gate
    \/ TypeNewCode \/ TypeCode \/ Biometrics \/ LockEnds
    \/ Restart

AppSpec == AppInit /\ [][AppNext]_appVars

-----------------------------------------------------------------------------
(***************************************************************************)
(* Properties.                                                             *)
(***************************************************************************)

\* Every variable has its type.
GateTypeOK ==
    /\ hasCode \in BOOLEAN /\ first \in BOOLEAN /\ unlocked \in BOOLEAN
    /\ fails \in 0..MaxMisses /\ misses \in 0..MaxMisses
    /\ lockFor \in 0..MaxLock /\ waited \in 0..MaxLock

\* "Five wrong codes in a row lock the keypad: 30 s, doubling per further miss, at most an
\* hour" (main.dart 78): no code is compared earlier than that after a wrong one, on whichever
\* of the two dialogs they are typed, and however often the app is restarted or opened by
\* biometrics in between.
Waiting[n \in Nat] ==
    IF n < FreeMisses THEN 0
    ELSE Lesser(IF n = FreeMisses THEN FirstLock ELSE 2 * Waiting[n - 1], MaxLock)
CodesWait == [][misses' # misses => waited >= Waiting[misses]]_appVars
=============================================================================

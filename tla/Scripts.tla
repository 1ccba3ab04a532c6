------------------------------- MODULE Scripts -------------------------------
(***************************************************************************)
(* PythonScript::Engine: the zone server's IO workers run functions of     *)
(* Python scripts, which ReloadExecute reads again each time (Play has     *)
(* what the scripts do to the HP, under the mutexes that the caller keeps  *)
(* meanwhile).  Each script has a shared mutex: alone to import or reload  *)
(* it, shared to call it.  The engine's own mutex is held for a lookup, a  *)
(* part of a step.  A script calls setters that lock nothing, so a worker  *)
(* in a script waits for nobody.                                           *)
(***************************************************************************)
EXTENDS Naturals

CONSTANTS Workers,      \* threads
          Files,        \* full paths of scripts
          None          \* no script, and no thread

VARIABLES
    pc,                 \* what each worker is doing: "idle", "lock", "load", "share" or "call"
    script,             \* for which script
    reload,             \* and whether by ReloadExecute
    alone,              \* py_obj_guard_: the worker that has the mutex of each script alone,
    shared,             \* and those that share it
    is_initialized_,    \* for each script
    edition,            \* history: how often each script was read from its file
    least               \* history: the oldest edition each worker may call

engine == <<alone, shared, is_initialized_, edition>>
vars == <<pc, script, reload, least, engine>>

\* The entry of a script is made by its first lookup, with is_initialized_ false.
Init ==
    /\ pc = [w \in Workers |-> "idle"]
    /\ script = [w \in Workers |-> None]
    /\ reload = [w \in Workers |-> FALSE]
    /\ least = [w \in Workers |-> 0]
    /\ alone = [f \in Files |-> None]
    /\ shared = [f \in Files |-> {}]
    /\ is_initialized_ = [f \in Files |-> FALSE]
    /\ edition = [f \in Files |-> 0]

Goto(w, label) == pc' = [pc EXCEPT ![w] = label]

\* Execute and ReloadExecute begin with the lookup.
Execute(w, f, again) ==
    /\ pc[w] = "idle"
    /\ Goto(w, "lock")
    /\ script' = [script EXCEPT ![w] = f]
    /\ reload' = [reload EXCEPT ![w] = again]
    /\ least' = [least EXCEPT ![w] = edition[f]]
    /\ UNCHANGED engine

LockAlone(w, f) ==
    /\ pc[w] = "lock" /\ script[w] = f
    /\ alone[f] = None /\ shared[f] = {}
    /\ alone' = [alone EXCEPT ![f] = w]
    /\ Goto(w, "load")
    /\ UNCHANGED <<script, reload, least, shared, is_initialized_, edition>>

\* The script is imported, unless it was, and then reloaded or left as it is.
Load(w, f) ==
    /\ pc[w] = "load" /\ script[w] = f
    /\ alone' = [alone EXCEPT ![f] = None]
    /\ is_initialized_' = [is_initialized_ EXCEPT ![f] = TRUE]
    /\ LET reads == reload[w] \/ ~is_initialized_[f]
       IN  /\ edition' = [edition EXCEPT ![f] = IF reads THEN @ + 1 ELSE @]
           /\ least' = [least EXCEPT ![w] = IF reads THEN edition[f] + 1 ELSE @]
    /\ Goto(w, "share")
    /\ UNCHANGED <<script, reload, shared>>

\* The import or the reload throws: the mutex is released and nothing is called.
LoadFails(w, f) ==
    /\ pc[w] = "load" /\ script[w] = f
    /\ reload[w] \/ ~is_initialized_[f]
    /\ alone' = [alone EXCEPT ![f] = None]
    /\ Goto(w, "idle")
    /\ UNCHANGED <<script, reload, least, shared, is_initialized_, edition>>

LockShared(w, f) ==
    /\ pc[w] = "share" /\ script[w] = f
    /\ alone[f] = None
    /\ shared' = [shared EXCEPT ![f] = @ \cup {w}]
    /\ Goto(w, "call")
    /\ UNCHANGED <<script, reload, least, alone, is_initialized_, edition>>

\* The function returns or raises an exception, which is printed.
Return(w, f) ==
    /\ pc[w] = "call" /\ script[w] = f
    /\ shared' = [shared EXCEPT ![f] = @ \ {w}]
    /\ Goto(w, "idle")
    /\ UNCHANGED <<script, reload, least, alone, is_initialized_, edition>>

Step(w, f) ==
    \/ \E again \in BOOLEAN : Execute(w, f, again)
    \/ LockAlone(w, f) \/ Load(w, f) \/ LoadFails(w, f) \/ LockShared(w, f) \/ Return(w, f)

Next == \E w \in Workers, f \in Files : Step(w, f)

Spec == Init /\ [][Next]_vars

-----------------------------------------------------------------------------
(* Properties. *)

(* No script is imported or reloaded while a function of it runs, nor by   *)
(* two workers at once.  (Between two scripts, or two calls of one,        *)
(* nothing is excluded: the interpreter's lock is never taken.)            *)
ReloadsAlone ==
    \A w, v \in Workers :
        pc[w] = "load" /\ pc[v] \in {"load", "call"} /\ script[v] = script[w] => v = w

(* A function is only called of a script that was imported, in an edition  *)
(* no older than what the worker has read or found: a failed import leaves *)
(* nothing to call (PythonScriptEngine.hpp:52-55 and 79-84).               *)
CallsWhatWasRead ==
    \A w \in Workers :
        pc[w] = "call" => is_initialized_[script[w]] /\ least[w] <= edition[script[w]]

(* Nobody waits for a worker that waits itself: who has the mutex of a     *)
(* script is about to read it or is in a function of it.                   *)
HoldersRun ==
    \A f \in Files :
        /\ alone[f] # None => pc[alone[f]] = "load" /\ script[alone[f]] = f /\ shared[f] = {}
        /\ \A w \in shared[f] : pc[w] = "call" /\ script[w] = f
=============================================================================

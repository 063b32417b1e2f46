------------------------------- MODULE KvDict -------------------------------
(***************************************************************************)
(* What the key-value store promises to hooks, templates and commands: a   *)
(* dictionary that a command opens, changes in a private view, flushes     *)
(* into its transaction and publishes as a whole, or not at all.  Rows,    *)
(* versions, tombstones, expiry times and pruning do not exist here.       *)
(***************************************************************************)
CONSTANTS Keys, Contents, Nothing

VARIABLES
    dict,   \* key -> the published content, Nothing when the key is not set
    work,   \* what the open transaction holds
    view,   \* what a read answers inside the open command
    open    \* whether a command is open

vars == <<dict, work, view, open>>

Dictionaries == [Keys -> Contents \cup {Nothing}]

Init ==
    /\ dict \in Dictionaries
    /\ work = dict
    /\ view = dict
    /\ open = FALSE

Open ==
    /\ ~ open
    /\ open' = TRUE
    /\ UNCHANGED <<dict, work, view>>

\* A command sets or forgets keys in its own view only.
Change ==
    /\ open
    /\ view' \in Dictionaries
    /\ UNCHANGED <<dict, work, open>>

Flush ==
    /\ open
    /\ work' = view
    /\ UNCHANGED <<dict, view, open>>

\* Publication is atomic: all that was flushed, and nothing else.
Commit ==
    /\ open
    /\ dict' = work
    /\ view' = work
    /\ open' = FALSE
    /\ UNCHANGED work

Abandon ==
    /\ open
    /\ work' = dict
    /\ view' = dict
    /\ open' = FALSE
    /\ UNCHANGED dict

Next == Open \/ Change \/ Flush \/ Commit \/ Abandon

Spec == Init /\ [][Next]_vars
=============================================================================

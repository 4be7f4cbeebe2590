----------------------------- MODULE NestedScopes ------------------------------
(***************************************************************************)
(* What DB.Transaction and the scopes inside it promise, said without      *)
(* savepoints, callbacks or connections: work is done inside scopes that   *)
(* nest; a scope is kept, which leaves what was done inside it to those    *)
(* around it, or dropped, which takes away exactly that.  The root takes   *)
(* all that is left to the database at once, or nothing.  Every call is    *)
(* answered once, not before its root was ended, and with nil only when    *)
(* its work has been taken there.                                          *)
(***************************************************************************)
EXTENDS Integers

CONSTANT Session    \* the calls

VARIABLES
    work,       \* per call: its transaction
    answer      \* per call: what it returned

vars == <<work, answer>>

\* Scope 1 is the root, scope n the n-th one begun; none is open when the root
\* is not.  Work is doomed when a statement failed ("aborted", until a scope is
\* dropped) or the connection did ("lost"), and over when the root was ended.
New ==
    [open |-> {1}, begun |-> 1, state |-> "active",
     written |-> 0, effects |-> {}, durable |-> {}]

Init ==
    /\ work = [c \in Session |-> New]
    /\ answer = [c \in Session |-> "none"]

-------------------------------------------------------------------------------
(* What becomes of the work of a call.                                     *)

Begun(w) == [w EXCEPT !.begun = @ + 1, !.open = @ \cup {w.begun + 1}]

\* What is written is written in the scopes that are open.
Wrote(w) ==
    [w EXCEPT !.written = @ + 1,
              !.effects = @ \cup {[id |-> w.written + 1, in |-> w.open]}]

Doomed(w, state) == [w EXCEPT !.state = state]

Kept(w, s) == [w EXCEPT !.open = @ \ {s}]

\* What was done outside a scope.
Spared(effects, s) == {e \in effects : s \notin e.in}

Dropped(w, s) ==
    [w EXCEPT !.open = @ \ {s}, !.state = "active", !.effects = Spared(@, s)]

Over(w, durable) ==
    [w EXCEPT !.open = {}, !.state = "over", !.effects = {}, !.durable = durable]

-------------------------------------------------------------------------------
(* The steps of a call.                                                    *)

Becomes(c, w) == work' = [work EXCEPT ![c] = w]

Active(c) == work[c].open # {} /\ work[c].state = "active"

Inner(c) == work[c].open \ {1}

Begin(c) == Active(c) /\ Becomes(c, Begun(work[c])) /\ UNCHANGED answer

Write(c) == Active(c) /\ Becomes(c, Wrote(work[c])) /\ UNCHANGED answer

\* A statement fails, or the connection is lost.
Doom(c) ==
    /\ Active(c)
    /\ \E state \in {"aborted", "lost"} : Becomes(c, Doomed(work[c], state))
    /\ UNCHANGED answer

\* A scope closes, and what was done inside it stays with those around it: it is
\* kept, or could be neither kept nor dropped, and the work is doomed or not.
Keep(c, s) ==
    /\ \E state \in {work[c].state, "aborted", "lost"} :
        /\ work[c].state = "lost" => state = "lost"
        /\ Becomes(c, Doomed(Kept(work[c], s), state))
    /\ UNCHANGED answer

\* What was done inside the scope is undone, a statement that failed included.
Drop(c, s) ==
    /\ work[c].state # "lost"
    /\ Becomes(c, Dropped(work[c], s))
    /\ UNCHANGED answer

\* The root is ended by the call, which answers, or by hand before.
Answer(c, replies) ==
    \/ UNCHANGED answer
    \/ /\ answer[c] = "none"
       /\ \E reply \in replies : answer' = [answer EXCEPT ![c] = reply]

\* Everything is taken to the database; the reply may be lost.
Commit(c) ==
    /\ Active(c)
    /\ Becomes(c, Over(work[c], work[c].effects))
    /\ Answer(c, {"nil", "error"})

\* Nothing is.
Abandon(c) ==
    /\ work[c].open # {}
    /\ Becomes(c, Over(work[c], {}))
    /\ Answer(c, {"error", "panic"})

\* A call that never began, or whose root was ended by hand, answers as well.
Refuse(c) ==
    /\ UNCHANGED work
    /\ Answer(c, {"error", "panic"})
    /\ answer' # answer => work[c].open = {} \/ work[c] = New

-------------------------------------------------------------------------------

Next ==
    \E c \in Session :
        \/ Refuse(c) \/ Commit(c) \/ Abandon(c)
        \/ Begin(c) \/ Write(c) \/ Doom(c)
        \/ \E s \in Inner(c) : Keep(c, s) \/ Drop(c, s)

Spec == Init /\ [][Next]_vars

===============================================================================

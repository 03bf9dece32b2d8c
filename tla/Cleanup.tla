------------------------------ MODULE Cleanup ------------------------------
(***************************************************************************)
(* What `defer` and `errdefer` promise, whichever engine runs the program. *)
(* Each activation of a function keeps the list of the cleanups it has     *)
(* registered; it runs them last in first out, a cleanup may call          *)
(* functions that register cleanups of their own, and it returns when none *)
(* is left.  An `errdefer` may be skipped, a `defer` may not.  Nothing     *)
(* here says how a body is left: return, error, loop exit and tail call    *)
(* all lead to the same discipline.                                        *)
(***************************************************************************)
EXTENDS Naturals, Sequences

CONSTANTS
  MaxActs,    \* bound: activations at one time
  MaxDefers   \* bound: defer statements executed

VARIABLES
  acts,       \* the pending cleanups of each activation, innermost last
  fates       \* what became of each executed defer statement

vars == <<acts, fates>>

-----------------------------------------------------------------------------
\* The pending cleanups of the running activation.
Mine == acts[Len(acts)]

WithMine(p) == [acts EXCEPT ![Len(acts)] = p]

AllButLast(s) == SubSeq(s, 1, Len(s) - 1)

Init ==
  /\ acts = << <<>> >>
  /\ fates = <<>>

Active == acts # <<>>

\* A call: the activation starts with nothing to clean up.
Enter ==
  /\ Active
  /\ Len(acts) < MaxActs
  /\ acts' = Append(acts, <<>>)
  /\ UNCHANGED fates

\* The entry of the next defer statement.
Entry(kind) == [id |-> Len(fates) + 1, kind |-> kind]

\* `defer e` or `errdefer e`.
Register ==
  /\ Active
  /\ Len(fates) < MaxDefers
  /\ \E kind \in {"Always", "OnError"} : acts' = WithMine(Append(Mine, Entry(kind)))
  /\ fates' = Append(fates, "pending")

\* The youngest pending cleanup is skipped, or run: in place, or by a call.
Resolve ==
  /\ Active
  /\ Mine # <<>>
  /\ LET c == Mine[Len(Mine)]
         rest == WithMine(AllButLast(Mine))
     IN  \/ /\ c.kind = "OnError"
            /\ fates' = [fates EXCEPT ![c.id] = "skipped"]
            /\ acts' = rest
         \/ /\ fates' = [fates EXCEPT ![c.id] = "ran"]
            /\ \/ acts' = rest
               \/ /\ Len(acts) < MaxActs
                  /\ acts' = Append(rest, <<>>)

\* A return: nothing is left to clean up.
Leave ==
  /\ Active
  /\ Mine = <<>>
  /\ acts' = AllButLast(acts)
  /\ UNCHANGED fates

Next == Enter \/ Register \/ Resolve \/ Leave

Spec == Init /\ [][Next]_vars

-----------------------------------------------------------------------------
Cleanups == [id : Nat \ {0}, kind : {"Always", "OnError"}]

TypeOK ==
  /\ acts \in Seq(Seq(Cleanups))
  /\ fates \in Seq({"pending", "ran", "skipped"})

(***************************************************************************)
(* No cleanup is lost and none runs twice: a registered cleanup is pending *)
(* exactly while it waits in the list of some activation.                  *)
(***************************************************************************)
PendingIffWaiting ==
  /\ \A n \in 1..Len(acts) : \A k \in 1..Len(acts[n]) :
       /\ acts[n][k].id \in 1..Len(fates)
       /\ fates[acts[n][k].id] = "pending"
  /\ \A id \in 1..Len(fates) : fates[id] = "pending" =>
       \E n \in 1..Len(acts) : \E k \in 1..Len(acts[n]) : acts[n][k].id = id

(***************************************************************************)
(* When the program has ended, every cleanup it registered has been run or *)
(* was an errdefer that did not apply.                                     *)
(***************************************************************************)
AllResolvedAtEnd ==
  acts = <<>> => \A id \in 1..Len(fates) : fates[id] \in {"ran", "skipped"}

(***************************************************************************)
(* Cleanups registered later, here or in an inner call, are resolved       *)
(* first: the numbers in a list grow, and grow from activation to          *)
(* activation.  So a cleanup waits in one place only.                      *)
(***************************************************************************)
InOrder ==
  \A n, m \in 1..Len(acts) : \A j \in 1..Len(acts[n]), k \in 1..Len(acts[m]) :
    n < m \/ (n = m /\ j < k) => acts[n][j].id < acts[m][k].id
=============================================================================

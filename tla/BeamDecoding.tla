---------------------------- MODULE BeamDecoding ----------------------------
(***************************************************************************)
(* python_function_decoding: a greedy attempt in the original format,      *)
(* taken if it is a whole function of the requested declaration, and       *)
(* otherwise a beam search in which only acceptable functions count as     *)
(* finished.  The search stops as soon as nothing open can win.            *)
(*                                                                         *)
(* A log probability is minus a cost, a token that is not 0 a byte of the  *)
(* body.  The network's costs and what is acceptable are choices.          *)
(***************************************************************************)
EXTENDS Integers, Sequences, FiniteSets

CONSTANTS
  Vocabulary, \* tokens of the model: 0, the end, and some more
  Costs,      \* what a token may cost
  Top, Beam,  \* tokens tried of an entry, entries kept: 8 and 8 in the code
  MaxNew      \* max_new_tokens

ASSUME BeamConstants ==
  /\ Vocabulary \in Nat /\ Costs \subseteq Nat
  /\ Top \in 1..Vocabulary /\ Beam \in Nat \ {0} /\ MaxNew \in Nat \ {0}

Tokens == 0..(Vocabulary - 1)

VARIABLES
  search,     \* "off", "legacy", "beam", "error" or "done"
  step,       \* tokens generated so far
  beam,       \* the open entries, best first
  finished, fallback,   \* acceptable functions; the best end of any kind
  stopped,    \* history: the answer of an early stop; the search goes on without it
  answer

beamVars == <<search, step, beam, finished, fallback, stopped, answer>>

Nothing == [cost |-> 0, body |-> <<>>, count |-> 0, kind |-> "none"]
Empty == [Nothing EXCEPT !.kind = "open"]

BeamOff == /\ search = "off" /\ step = 0 /\ beam = <<>> /\ finished = <<>>
           /\ fallback = Nothing /\ stopped = Nothing /\ answer = Nothing

\* Without one clear declaration there is nothing to hold the greedy attempt to.
BeamInit ==
  /\ search \in {"legacy", "beam"}
  /\ step = 0 /\ beam = <<Empty>> /\ finished = <<>>
  /\ fallback = Nothing /\ stopped = Nothing /\ answer = Nothing

\* A prompt over the context and logits that are not finite end it.
BeamError ==
  /\ search \in {"legacy", "beam"} /\ stopped = Nothing
  /\ search' = "error"
  /\ UNCHANGED <<step, beam, finished, fallback, stopped, answer>>

\* legacy_function
LegacyEnds(whole) ==
  IF whole THEN answer' = [Nothing EXCEPT !.count = step + 1, !.kind = "function"] /\ search' = "done"
           ELSE search' = "beam" /\ UNCHANGED answer

LegacyToken ==
  /\ search = "legacy"
  /\ \/ /\ \E whole \in BOOLEAN : LegacyEnds(whole)        \* token 0
        /\ step' = 0
     \/ /\ IF step + 1 = MaxNew THEN search' = "beam" /\ step' = 0
                                ELSE step' = step + 1 /\ UNCHANGED search
        /\ UNCHANGED answer
  /\ UNCHANGED <<beam, finished, fallback, stopped>>

-----------------------------------------------------------------------------
\* The beam

\* The elements of S in the order that the pairs of R say.
Ranked(S, R) ==
  [k \in 1..Cardinality(S) |-> CHOOSE i \in S : Cardinality({j \in S : <<j, i>> \in R}) = k - 1]

\* The first n of a sequence by cost, equals in their order.
Cheaper(s) ==
  {pair \in (1..Len(s)) \X (1..Len(s)) :
     \/ s[pair[1]].cost < s[pair[2]].cost
     \/ s[pair[1]].cost = s[pair[2]].cost /\ pair[1] < pair[2]}

Cheapest(s, n) ==
  LET ranked == Ranked(1..Len(s), Cheaper(s))
  IN  [k \in 1..(IF Len(s) < n THEN Len(s) ELSE n) |-> s[ranked[k]]]

\* argsort(-logp, stable)[:8]
Tried(costs) ==
  Cheapest([t \in 1..Vocabulary |-> [token |-> t - 1, cost |-> costs[t - 1]]], Top)

\* An entry with one more token; an end is a function if it is acceptable.
Extended(entry, tried, acceptable) ==
  [cost |-> entry.cost + tried.cost, count |-> entry.count + 1,
   body |-> IF tried.token = 0 THEN entry.body ELSE Append(entry.body, tried.token),
   kind |-> IF tried.token # 0 THEN "open" ELSE IF acceptable THEN "function" ELSE "end"]

\* Each open entry with each of its tokens, one entry after the other.
Expanded(costs, good) ==
  LET tried == [i \in 1..Len(beam) |-> Tried(costs[i])]
      Entry(i, k) == Extended(beam[i], tried[i][k], i \in good)
  IN  [p \in 1..(Len(beam) * Top) |-> Entry(((p - 1) \div Top) + 1, ((p - 1) % Top) + 1)]

\* The entries of some kinds, in their order.
Of(s, kinds) ==
  LET chosen == {i \in 1..Len(s) : s[i].kind \in kinds}
      ranked == Ranked(chosen, {pair \in chosen \X chosen : pair[1] < pair[2]})
  IN  [k \in 1..Cardinality(chosen) |-> s[ranked[k]]]

\* max(..., key=score) takes the first of the best.
Best(s) == Cheapest(s, 1)[1]

\* (bug variant) the search stops before the best open entry is beaten
NothingOpenCanWinHasty(done, open) ==
  done # <<>> /\ (open = <<>> \/ Best(done).cost <= open[Len(open)].cost)

NothingOpenCanWin(done, open) ==
  done # <<>> /\ (open = <<>> \/ Best(done).cost <= open[1].cost)

\* The selection after the loop.
Choice(done, best, open) ==
  IF done # <<>> THEN Best(done)
  ELSE IF open # <<>> THEN Best((IF best = Nothing THEN <<>> ELSE <<best>>) \o open)
  ELSE best

Deepen(costs, good) ==
  LET all == Expanded(costs, good)
      ends == Of(all, {"end", "function"})
      done == finished \o Of(all, {"function"})
      open == Cheapest(Of(all, {"open"}), Beam)
      best == Best((IF fallback = Nothing THEN <<>> ELSE <<fallback>>) \o ends)
  IN  /\ search = "beam" /\ step < MaxNew /\ beam # <<>>
      /\ step' = step + 1
      /\ beam' = open /\ finished' = done
      /\ fallback' = IF ends = <<>> THEN fallback ELSE best
      /\ stopped' = IF stopped = Nothing /\ NothingOpenCanWin(done, open) THEN Best(done) ELSE stopped
      /\ UNCHANGED <<search, answer>>

Finish ==
  /\ search = "beam" /\ (step = MaxNew \/ beam = <<>>)
  /\ search' = "done"
  /\ answer' = Choice(finished, fallback, beam)
  /\ UNCHANGED <<step, beam, finished, fallback, stopped>>

BeamNext ==
  \/ BeamError \/ LegacyToken \/ Finish
  \/ \E costs \in [1..Len(beam) -> [Tokens -> Costs]], good \in SUBSET (1..Len(beam)) : Deepen(costs, good)

BeamSpec == BeamInit /\ [][BeamNext]_beamVars

\* The answer of the program.
Response == IF stopped # Nothing THEN stopped ELSE answer

\* Stopping early changes nothing: the search that runs to its budget gives the same
\* answer.  An acceptable function that was found is never passed over, and a response
\* is within its budget.
EarlyStopIsSound ==
  search = "done" =>
    /\ stopped # Nothing => answer = stopped
    /\ finished # <<>> => Response.kind = "function"
    /\ Response.count \in 1..MaxNew
=============================================================================

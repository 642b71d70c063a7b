------------------------------ MODULE Windowing ------------------------------
(***************************************************************************)
(* The history window of services/api/windowing.py, over the life of one   *)
(* conversation: the chat routes call window_turns on the turns so far and *)
(* then record new ones.  A turn is the length of its content; its tokens  *)
(* column is always estimate_tokens of that.  The loop of window_turns is  *)
(* one action per outcome of its body.                                     *)
(***************************************************************************)
EXTENDS Integers, Sequences, FiniteSetsExt, SeqOps

CONSTANTS
    TurnChars,      \* lengths of turns (characters, without outer white space)
    MaxTurns,       \* bound on the turns of the conversation
    CharsPerToken,  \* 4 in the code
    Marker,         \* length of the truncation marker, 47 in the code
    Budgets,        \* HISTORY_TOKEN_BUDGET
    MinRecents,     \* HISTORY_MIN_RECENT
    HardCaps,       \* HISTORY_HARD_CAP_TOKENS, 0 for no cap
    MaxTurnTokens   \* HISTORY_MAX_TURN_TOKENS, 0 for no clipping

ASSUME WindowingAssumption ==
    /\ TurnChars \subseteq Nat /\ MaxTurns \in Nat
    /\ CharsPerToken \in Nat \ {0} /\ Marker \in Nat
    /\ Budgets \subseteq Nat /\ MinRecents \subseteq Nat
    /\ HardCaps \subseteq Nat /\ MaxTurnTokens \subseteq Nat

VARIABLES
    set,        \* the settings of the server
    turns,      \* the conversation, oldest first
    pc,         \* idle, loop, done (the last call's window is in force)
    i,          \* the loop's turn
    recent,     \* the kept turns, oldest first, clipped
    used,       \* their tokens
    older,      \* how many of the oldest turns are summarised
    folded      \* the same, of the call before (history)

vars == <<set, turns, pc, i, recent, used, older, folded>>

-----------------------------------------------------------------------------
(* Sizes *)

EstimateTokens(chars) == Max({1, chars \div CharsPerToken})

\* Half of the characters a clipped turn keeps.
Half == Max({1, (set.maxTurn * CharsPerToken) \div 2})

\* Mutant of TruncateTurn: head and tail are the whole allowance each.
TruncateTurnTwice(chars) ==
    IF set.maxTurn = 0 \/ EstimateTokens(chars) <= set.maxTurn
    THEN chars
    ELSE 4 * Half + Marker

\* _truncate_turn: head, marker, tail.  The caller skips it for no maximum.
TruncateTurn(chars) ==
    IF set.maxTurn = 0 \/ EstimateTokens(chars) <= set.maxTurn
    THEN chars
    ELSE 2 * Half + Marker

\* What turn k of the conversation costs in the window.
Tok(k) == EstimateTokens(TruncateTurn(turns[k]))

-----------------------------------------------------------------------------
(* window_turns *)

OverHard == set.cap # 0 /\ used + Tok(i) > set.cap

\* Mutant of OverBudget: min_recent is off by one.
OverBudgetLate == used + Tok(i) > set.budget /\ Len(recent) > set.minRecent
OverBudget == used + Tok(i) > set.budget /\ Len(recent) >= set.minRecent

Stops == recent # <<>> /\ (OverHard \/ OverBudget)

\* Mutant of Begin: the list of kept turns is a mutable default argument.
BeginKeepsRecent ==
    /\ pc = "idle" /\ turns # <<>>
    /\ i' = Len(turns) /\ used' = 0 /\ older' = 0
    /\ pc' = "loop"
    /\ UNCHANGED <<set, turns, recent, folded>>

\* The chat routes call it only for a conversation with turns.
Begin ==
    /\ pc = "idle" /\ turns # <<>>
    /\ i' = Len(turns) /\ recent' = <<>> /\ used' = 0 /\ older' = 0
    /\ pc' = "loop"
    /\ UNCHANGED <<set, turns, folded>>

Keep ==
    /\ pc = "loop" /\ i > 0 /\ ~Stops
    /\ recent' = <<TruncateTurn(turns[i])>> \o recent
    /\ used' = used + Tok(i)
    /\ i' = i - 1
    /\ UNCHANGED <<set, turns, pc, older, folded>>

\* Mutant of Fold: the turn that does not fit is skipped, the loop goes on.
FoldSkips ==
    /\ pc = "loop" /\ i > 0 /\ Stops
    /\ i' = i - 1 /\ older' = older + 1
    /\ UNCHANGED <<set, turns, pc, recent, used, folded>>

\* Mutant of Fold: turns[:i], so that turn i is in neither part.
FoldOffByOne ==
    /\ pc = "loop" /\ i > 0 /\ Stops
    /\ older' = i - 1
    /\ pc' = "done"
    /\ UNCHANGED <<set, turns, i, recent, used, folded>>

\* The first turn that does not fit ends the loop: it and all before it are
\* summarised.
Fold ==
    /\ pc = "loop" /\ i > 0 /\ Stops
    /\ older' = i
    /\ pc' = "done"
    /\ UNCHANGED <<set, turns, i, recent, used, folded>>

Exhausted ==
    /\ pc = "loop" /\ i = 0
    /\ pc' = "done"
    /\ UNCHANGED <<set, turns, i, recent, used, older, folded>>

-----------------------------------------------------------------------------
(* The conversation *)

\* _persist_turn, after the call or without one (the assistant's turn, the
\* turns a cold thread is seeded with).
AddTurn(chars) ==
    /\ pc # "loop" /\ Len(turns) < MaxTurns
    /\ turns' = Append(turns, chars)
    /\ folded' = IF pc = "done" THEN older ELSE folded
    /\ pc' = "idle"
    /\ UNCHANGED <<set, i, recent, used, older>>

Init ==
    /\ set \in [budget : Budgets, minRecent : MinRecents, cap : HardCaps, maxTurn : MaxTurnTokens]
    /\ turns = <<>> /\ pc = "idle"
    /\ i = 0 /\ recent = <<>> /\ used = 0 /\ older = 0 /\ folded = 0

Next == Begin \/ Keep \/ Fold \/ Exhausted \/ \E chars \in TurnChars : AddTurn(chars)

Spec == Init /\ [][Next]_vars

-----------------------------------------------------------------------------
(* Properties *)

\* The types of the variables.
TypeOK ==
    /\ set \in [budget : Budgets, minRecent : MinRecents, cap : HardCaps, maxTurn : MaxTurnTokens]
    /\ turns \in Seq(TurnChars) /\ Len(turns) <= MaxTurns
    /\ pc \in {"idle", "loop", "done"}
    /\ i \in 0..MaxTurns /\ older \in 0..MaxTurns /\ folded \in 0..MaxTurns
    /\ recent \in Seq(Nat) /\ Len(recent) <= MaxTurns /\ used \in Nat

\* The recent turns of window_turns and the summarised ones are the
\* conversation: none is lost between them, none is in both, and the recent
\* ones are in order.
Partition ==
    pc = "done" =>
        /\ older + Len(recent) = Len(turns)
        /\ \A k \in 1..Len(recent) : recent[k] = TruncateTurn(turns[older + k])

\* The tokens of the turns from k on, by a recursion the code does not have.
SuffixTokens == SuffixSums([k \in 1..Len(turns) |-> Tok(k)])

\* The turns from k on respect the cap, and the budget unless they are at
\* most min_recent; the newest turn alone always may stay.
Fits(k) ==
    \/ k = Len(turns)
    \/ /\ set.cap # 0 => SuffixTokens[k] <= set.cap
       /\ SuffixTokens[k] <= set.budget \/ Len(turns) - k + 1 <= set.minRecent

\* window_turns, which stops at the first turn that does not fit, keeps the
\* longest run of newest turns that fits: no older turn could be added.
LongestFit ==
    pc = "done" => older + 1 = Min({k \in 1..Len(turns) : Fits(k)})

\* Clipping and the hard cap together bound what window_turns adds to a
\* prompt, however large the turns of the conversation are: the cap, or one
\* clipped turn with its marker where the cap is smaller than that.
BoundedBlock ==
    pc = "done" /\ set.maxTurn # 0 /\ set.cap # 0 =>
        used <= Max({set.cap, set.maxTurn, EstimateTokens(2 * Half + Marker)})

\* A turn that one call has folded into the summary is not verbatim again in
\* the window of a later call.
StaysFolded == pc = "done" => older >= folded

\* What the docstring of window_turns says of hard_cap_tokens: an absolute
\* ceiling on the recent block.
AbsoluteCap == pc = "done" /\ set.cap # 0 => used <= set.cap
=============================================================================

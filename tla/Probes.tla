------------------------------- MODULE Probes -------------------------------
(***************************************************************************)
(* The gate of deploy/verify.py's docstring,                               *)
(*     deploy/healthcheck.sh && python deploy/verify.py || systemctl stop  *)
(* against a server whose answers depend on its null block (NullBlock).    *)
(* The probes are requests like any other, one after the other, beside     *)
(* other traffic.                                                          *)
(***************************************************************************)
EXTENDS NullBlock, Sequences

CONSTANTS Probe     \* the prober's request

\* A tile has several entries, and a row may have one valid one.
ASSUME ProbeAssumption == Probe \in Requests /\ Tile > 1 /\ MaxValid > 0

\* CONTINUATIONS has six prompts.
Script ==
    <<"health", "models", "answer",
      "models", "continuation", "continuation", "continuation", "continuation",
      "continuation", "continuation", "passage", "chat", "verdict">>

VARIABLES
    at,         \* position in the script, 0 before the gate is run
    hits,       \* continuations that matched
    ppl,        \* out["perplexity"]
    gate        \* how the gate ended

probeVars == <<at, hits, ppl, gate>>

Running(step) == gate = "none" /\ at > 0 /\ Script[at] = step

Serving == stage = "serving"

Ask == { "answer", "continuation", "passage", "chat" }

Advance == at' = at + 1

Stop == gate' = "stopped" /\ UNCHANGED <<at, hits, ppl>>

GateInit ==
    /\ Init
    /\ at = 0
    /\ hits = 0
    /\ ppl = "none"
    /\ gate = "none"

RunGate ==
    /\ at = 0
    /\ Advance
    /\ UNCHANGED <<hits, ppl, gate>>
    /\ UNCHANGED vars

\* /health, and /v1/models asked for a name: exit status 1 if the server is
\* not up or does not answer in time.
Reach ==
    /\ Running("health") \/ Running("models")
    /\ \/ Serving /\ Advance /\ UNCHANGED <<hits, ppl, gate>>
       \/ Stop
    /\ UNCHANGED vars

\* The prompt's forward: the row of its first token has one valid entry.
Send ==
    /\ \E step \in Ask : Running(step)
    /\ out[Probe] = "idle"
    /\ Query(Probe, [v \in Readers |-> 1])
    /\ UNCHANGED probeVars

Decode(n) ==
    /\ out[Probe] # "idle"
    /\ Query(Probe, n)
    /\ UNCHANGED probeVars

\* Mutant: any completion will do.
AnyReply == {TRUE, FALSE}

\* A finite answer is right or wrong; one made from NaN decodes to an empty
\* string or is refused by the JSON encoder, and is wrong.
MayBeRight == IF out[Probe] = "finite" THEN {TRUE, FALSE} ELSE {FALSE}

Reply ==
    /\ out[Probe] # "idle"
    /\ Complete(Probe)

\* *42*; no completion, another answer (2) or a slow one (3) ends the gate.
CheckAnswer ==
    /\ Running("answer")
    /\ Reply
    /\ \/ TRUE \in MayBeRight /\ Advance /\ UNCHANGED <<hits, ppl, gate>>
       \/ Stop

\* An error counts as a miss.
MatchContinuation ==
    /\ Running("continuation")
    /\ Reply
    /\ \E right \in MayBeRight : hits' = IF right THEN hits + 1 ELSE hits
    /\ Advance
    /\ UNCHANGED <<ppl, gate>>

\* No prompt_logprobs, or an error: the perplexity stays None.
ScorePassage ==
    /\ Running("passage")
    /\ Reply
    /\ ppl' \in IF out[Probe] = "finite" THEN {"none", "low", "high"} ELSE {"none"}
    /\ Advance
    /\ UNCHANGED <<hits, gate>>

\* The chat reply is printed and not judged.
PrintChat ==
    /\ Running("chat")
    /\ Reply
    /\ Advance
    /\ UNCHANGED <<hits, ppl, gate>>

Sane == hits >= 4 /\ ppl # "high"

Verdict ==
    /\ Running("verdict")
    /\ gate' = IF Sane THEN "passed" ELSE "stopped"
    /\ UNCHANGED <<at, hits, ppl>>
    /\ UNCHANGED vars

ProbeStep ==
    \/ RunGate
    \/ Reach
    \/ Send
    \/ \E n \in [Readers -> 0..MaxValid] : Decode(n)
    \/ CheckAnswer
    \/ MatchContinuation
    \/ ScorePassage
    \/ PrintChat
    \/ Verdict

\* Everything else the server does.
OtherStep ==
    /\ Next
    /\ out'[Probe] = out[Probe]
    /\ UNCHANGED probeVars

GateSpec ==
    /\ GateInit
    /\ [][ProbeStep \/ OtherStep]_<<vars, probeVars>>

-----------------------------------------------------------------------------
\* "Is the model actually right, or just up?"  A server whose null block is
\* NaN to one of its kernels, without the gather fix, does not pass the gate:
\* short prompts reach the null block as well as long ones.  (Where replays
\* write the null block it may turn bad only after the gate.)
GatePassesNoNaN ==
    gate = "passed" /\ ~conf.fix /\ ~conf.paddedWrites =>
        \A v \in Readers : ~IsNaN(v)

=============================================================================

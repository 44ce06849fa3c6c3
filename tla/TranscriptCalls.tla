-------------------------- MODULE TranscriptCalls --------------------------
(***************************************************************************)
(* Two transcripts, each fed by calls of its own.  A call names an         *)
(* operation, its label and its data; a label always comes with the same   *)
(* operation, and a challenge label with the same number of outputs, as    *)
(* throughout the repository (the number is not absorbed, so that two      *)
(* squeezes for one challenge look like one squeeze and a digest).  The    *)
(* same data may be handed over as a slice or through the buffered         *)
(* encoder.                                                                *)
(***************************************************************************)
EXTENDS TranscriptSponge

CONSTANTS
    Calls,       \* the calls a user may make: records of op, label, data
    MaxCalls     \* bound on the calls made on one transcript

ASSUME CallsAssumption ==
    /\ {AppDomain, ChalLabel, ForkLabel} \subseteq Seq(Nat)
    /\ \A call \in Calls :
        /\ call.op \in {"message", "fields", "u64s", "challenge", "fork", "digest"}
        /\ call.label \in Seq(Nat) /\ call.data \in Seq(Nat)
        /\ call.op = "challenge" => call.data # <<>>

(***************************************************************************)
(* What a call absorbs first, and what the users of the transcript owe it: *)
(* bytes are bytes, a first label is not one byte long (the gate of a      *)
(* squeeze is a 1) and comes with one operation, and a challenge label     *)
(* with one number of outputs.                                             *)
(***************************************************************************)
FirstLabel(call) ==
    CASE call.op = "challenge" -> ChalLabel
      [] call.op = "fork" -> ForkLabel
      [] OTHER -> call.label

ASSUME LabelsAssumption ==
    LET Bytes == 0..(ByteBase - 1)
        Labelled == {call \in Calls : call.op # "digest"}
    IN  /\ ByteBase \in Nat \ {0} /\ WordBase \in Nat \ {0}
        /\ {ChalLabel, ForkLabel} \subseteq Seq(Bytes)
        /\ \A call \in Calls :
            /\ call = [op |-> call.op, label |-> call.label, data |-> call.data]
            /\ call.label \in Seq(Bytes)
            /\ call.op = "message" => call.data \in Seq(Bytes)
            /\ call.op \in {"fork", "digest"} => call.data = <<>>
            /\ call.op = "digest" => call.label = <<>>
        /\ \A call \in Labelled : Len(FirstLabel(call)) # 1
        /\ \A call, other \in Labelled :
            /\ FirstLabel(call) = FirstLabel(other) => call.op = other.op
            /\ call.op = "challenge" /\ other.op = "challenge" /\ call.label = other.label
                 => call.data = other.data

VARIABLES
    left, right  \* two transcripts: tr, what they were told, and an elementwise replay

vars == <<left, right>>

(***************************************************************************)
(* What a call does, by either of its code paths.                          *)
(***************************************************************************)
Paths(call) == IF call.op = "fields" THEN {"slice", "iter"} ELSE {"slice"}

Apply(tr, call, path) ==
    CASE call.op = "message" -> AppendMessage(tr, call.label, call.data)
      [] call.op = "fields" -> IF path = "iter" THEN AppendFieldsIter(tr, call.label, call.data)
                               ELSE AppendFields(tr, call.label, call.data)
      [] call.op = "u64s" -> AppendU64s(tr, call.label, call.data)
      [] call.op = "challenge" -> ChallengeFields(tr, call.label, call.data[1]).tr
      [] call.op = "fork" -> Fork(tr, call.label)
      [] call.op = "digest" -> Digest(tr).tr

(***************************************************************************)
(* The elements a call is meant to absorb, and their absorption one at a   *)
(* time.                                                                   *)
(***************************************************************************)
Framed(bytes) == <<Len(bytes)>> \o Limbs(bytes)

Elements(call) ==
    CASE call.op = "message" -> Framed(call.label) \o Framed(call.data)
      [] call.op = "fields" -> Framed(call.label) \o <<Len(call.data)>> \o call.data
      [] call.op = "u64s" -> Framed(call.label) \o <<Len(call.data)>> \o Halves(call.data)
      [] call.op = "challenge" -> Framed(ChalLabel) \o Framed(call.label)
      [] call.op = "fork" -> Framed(ForkLabel) \o Framed(call.label)
      [] call.op = "digest" -> <<>>

Squeezes(call) ==
    CASE call.op = "challenge" -> (call.data[1] + Rate - 1) \div Rate
      [] call.op = "digest" -> 1
      [] OTHER -> 0

SqueezeOnce(tr, k) == PermuteNow(AbsorbElem(tr, 1))

ApplyElementwise(tr, call) ==
    FoldLeft(SqueezeOnce, FoldLeft(AbsorbElem, tr, Elements(call)), [k \in 1..Squeezes(call) |-> k])

---------------------------------------------------------------------------
Fresh ==
    [tr |-> NewTranscript(AppDomain), calls |-> <<>>, plain |-> NewTranscript(AppDomain)]

Init == left = Fresh /\ right = Fresh

AfterCall(side, call, path) ==
    [tr |-> Apply(side.tr, call, path), calls |-> Append(side.calls, call),
     plain |-> ApplyElementwise(side.plain, call)]

CallLeft(call, path) ==
    /\ Len(left.calls) < MaxCalls
    /\ left' = AfterCall(left, call, path)
    /\ UNCHANGED right

(* The right one takes the slices only: the two paths are compared as left *)
(* against right.                                                          *)
CallRight(call) ==
    /\ Len(right.calls) < MaxCalls
    /\ right' = AfterCall(right, call, "slice")
    /\ UNCHANGED left

Next ==
    \E call \in Calls :
        \/ \E path \in Paths(call) : CallLeft(call, path)
        \/ CallRight(call)

Spec == Init /\ [][Next]_vars

---------------------------------------------------------------------------
(* What a transcript would say next. *)
Outcome(tr) == Digest(tr).out

(***************************************************************************)
(* However a stream of elements is cut into slices, buffers and single     *)
(* elements, the next digest is that of the elements absorbed one by one:  *)
(* absorb_slice permutes eagerly and absorb_elem lazily, and the cursor    *)
(* they leave behind differs, yet no output may show it.                   *)
(***************************************************************************)
SlicingIsInvisible == Outcome(left.tr) = Outcome(left.plain)

(***************************************************************************)
(* Two transcripts give the same digest exactly when they were told the    *)
(* same: the length prefixes and labels keep every two sequences of calls  *)
(* apart, whatever the permutation, squeezes included.                     *)
(***************************************************************************)
DigestDeterminesCalls ==
    Outcome(left.tr) = Outcome(right.tr) <=> left.calls = right.calls

=============================================================================

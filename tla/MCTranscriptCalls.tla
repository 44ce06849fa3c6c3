------------------------- MODULE MCTranscriptCalls -------------------------
(***************************************************************************)
(* Calls on the symbolic sponge.  Labels have at least two bytes, as those *)
(* of the code, and a challenge label always asks for the same number of   *)
(* elements.                                                               *)
(***************************************************************************)
EXTENDS TranscriptCalls, SymbolicSponge

MCApp == <<1, 1>>
MCChal == <<2, 1, 1>>
MCFork == <<3, 1>>

Call(op, label, data) == [op |-> op, label |-> label, data |-> data]

MCCalls ==
    {Call("message", <<0, 2>>, m) : m \in {<<>>, <<2>>, <<2, 0>>, <<1, 0, 2>>}}
    \cup {Call("fields", <<1, 2>>, fs) : fs \in {<<>>, <<1>>, <<2, 0, 1>>, <<3, 1, 1, 2, 0, 1, 1>>}}
    \cup {Call("u64s", <<2, 2>>, us) : us \in {<<1>>, <<5, 1>>}}
    \cup {Call("challenge", <<0, 3>>, <<2>>), Call("challenge", <<2, 3>>, <<5>>)}
    \cup {Call("fork", <<1, 3>>, <<>>), Call("digest", <<>>, <<>>)}

=============================================================================

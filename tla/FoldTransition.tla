--------------------------- MODULE FoldTransition ---------------------------
(***************************************************************************)
(* One chunk of a fold session: the random-oracle transcript, the digests  *)
(* and the transition Π_CCS, Π_RLC, Π_DEC as the prover, the verifier and  *)
(* the witness replayer compute it.                                        *)
(*                                                                         *)
(* Abstractions.  A transcript is the sequence of what was absorbed, and a *)
(* digest or challenge is that sequence (an ideal hash).  A commitment is  *)
(* a term: a step's witness, <<"mix", ...>> for a random linear            *)
(* combination, <<"digit", z, j>> for a digit of z.  A claim is            *)
(* [com, val, fold]: what it commits to, the witness its evaluations were  *)
(* computed from, and the fold digest, which also stands for its           *)
(* evaluation point (the same transcript fixes both).  A step is           *)
(* [com, wit, ok]: the committed witness, the one the caller supplied and  *)
(* whether that one satisfies the constraint system.                       *)
(***************************************************************************)
EXTENDS ChunkLayout

CONSTANTS
  KRho,         \* digits a mixed witness is split into: params.k_rho
  MaxClaims     \* most claims one chunk can mix within the norm bound

ASSUME TransitionAssumption == KRho \in Nat \ {0} /\ MaxClaims \in Nat

NewSession == << <<"neo.fold.next/session">>>>

-----------------------------------------------------------------------------
(* Transcript contents and digests.                                        *)

AppendChunk(tr, chunk) ==
  IF Len(chunk.steps) = 1
  THEN Append(tr, <<"step_index", chunk.start>>)
  ELSE Append(tr, <<"chunk_meta", chunk.start, Len(chunk.steps)>>)

ChunkDone(tr) == Append(tr, <<"chunk_done">>)

PublicStep(step) == step.com
Public(chunk) == [start |-> chunk.start, steps |-> [i \in DOMAIN chunk.steps |-> PublicStep(chunk.steps[i])]]
PublicAll(chunks) == [i \in DOMAIN chunks |-> Public(chunks[i])]

PublicChunkDigest(chunk) == <<"chunk", chunk.start, chunk.steps>>
PublicChunkDigests(chunks) == [i \in DOMAIN chunks |-> PublicChunkDigest(chunks[i])]

ChunkRelationDigest(outputs, parent, children) == <<"relation", outputs, parent, children>>

\* Π_CCS header binding: Optimized chunk code binds the instance digest it is
\* given, every other mode the fresh claims themselves; then the carried claims.
BindCcs(mode, tr, claims, incoming, digest) ==
  tr \o << IF mode = "Optimized" THEN <<"digest", digest>> ELSE <<"instances", claims>>,
           <<"me_inputs", incoming>>, <<"challenges">> >>

\* One evaluation point for everything carried, or the reduction refuses.
SharedPoint(incoming) == \A i, j \in DOMAIN incoming : incoming[i].fold = incoming[j].fold

-----------------------------------------------------------------------------
(* One chunk transition: Π_CCS, then Π_RLC, then Π_DEC.                    *)

Coms(claims) == [i \in DOMAIN claims |-> claims[i].com]
Vals(claims) == [i \in DOMAIN claims |-> claims[i].val]

\* Random linear combination with the challenges drawn after `fold`.
Mix(fold, terms) == <<"mix", fold, terms>>
Digit(z, j) == <<"digit", z, j>>

RlcParent(outputs) ==
  [com |-> Mix(outputs[1].fold, Coms(outputs)),
   val |-> Mix(outputs[1].fold, Vals(outputs)),
   fold |-> outputs[1].fold]

DecChildren(z, fold) == [j \in 1..KRho |-> [com |-> Digit(z, j), val |-> Digit(z, j), fold |-> fold]]

\* The commitments of the children never compared with the parent's.
DecPublicOk_valuesOnly(parent, children) ==
  /\ children # <<>>
  /\ Vals(children) = [j \in 1..KRho |-> Digit(parent.val, j)]
  /\ \A j \in DOMAIN children : children[j].fold = parent.fold

\* Π_DEC's public checks: the children recombine to the parent in commitment
\* and value and sit at the parent's point.
DecPublicOk(parent, children) ==
  /\ children # <<>>
  /\ children = [j \in 1..KRho |-> [com |-> Digit(parent.com, j),
                                    val |-> Digit(parent.val, j),
                                    fold |-> parent.fold]]

\* The norm guard of sample_rot_rhos_n.
RhosAvailable(count) == count <= MaxClaims

\* Prover side of Π_CCS: fails when a fresh witness breaks the constraints, or
\* a carried witness is not the one its claim was evaluated from.
CcsProvable(chunk, claims, wits) ==
  /\ Len(claims) = Len(wits)
  /\ SharedPoint(claims)
  /\ \A i \in DOMAIN chunk.steps : chunk.steps[i].ok
  /\ \A i \in DOMAIN claims : claims[i].val = wits[i]

CcsOutputs(chunk, claims, wits, fold) ==
  [i \in DOMAIN chunk.steps |-> [com |-> chunk.steps[i].com, val |-> chunk.steps[i].wit, fold |-> fold]]
    \o [i \in DOMAIN claims |-> [com |-> claims[i].com, val |-> wits[i], fold |-> fold]]

\* The carry keeps the witnesses that came in.
FinishTransition_oldWits(tr, chunk, wits, outputs) ==
  LET fold == outputs[1].fold
      parent == RlcParent(outputs)
      z == Mix(fold, [i \in DOMAIN chunk.steps |-> chunk.steps[i].wit] \o wits)
      children == DecChildren(z, fold)
  IN  [ok |-> RhosAvailable(Len(outputs)) /\ DecPublicOk(parent, children),
       tr |-> Append(tr, <<"rhos", Len(outputs)>>),
       parent |-> parent, children |-> children, wits |-> wits,
       relation |-> ChunkRelationDigest(outputs, parent, children)]

\* finish_chunk_transition: what follows Π_CCS on the side that has witnesses.
FinishTransition(tr, chunk, wits, outputs) ==
  LET fold == outputs[1].fold
      parent == RlcParent(outputs)
      z == Mix(fold, [i \in DOMAIN chunk.steps |-> chunk.steps[i].wit] \o wits)
      children == DecChildren(z, fold)
      ok == RhosAvailable(Len(outputs)) /\ DecPublicOk(parent, children)
  IN  [ok |-> ok, tr |-> Append(tr, <<"rhos", Len(outputs)>>),
       parent |-> parent, children |-> children,
       wits |-> [j \in 1..KRho |-> Digit(z, j)],
       relation |-> ChunkRelationDigest(outputs, parent, children)]

Refused == [ok |-> FALSE]

\* compute_chunk_relation and its twin for prepared chunks.
ProveTransition(mode, tr, chunk, claims, wits) ==
  IF Len(claims) # Len(wits) \/ chunk.steps = <<>> \/ ~CcsProvable(chunk, claims, wits)
  THEN Refused
  ELSE LET bound == BindCcs(mode, AppendChunk(tr, chunk), Public(chunk).steps, claims,
                            PublicChunkDigest(Public(chunk)))
           outputs == CcsOutputs(chunk, claims, wits, bound)
           done == FinishTransition(Append(bound, <<"digest32">>), chunk, wits, outputs)
       IN  [ok |-> done.ok, tr |-> done.tr, claims |-> done.children, wits |-> done.wits,
            proof |-> [chunk |-> Public(chunk), relation |-> done.relation, outputs |-> outputs,
                       header |-> bound, rounds |-> <<bound, outputs>>,
                       parent |-> done.parent, children |-> done.children]]

\* The verifier's half of Π_CCS: the rounds verify only under the challenges
\* they were computed for, and only for the outputs they ended in; the outputs
\* must belong to the fresh and carried claims, in order.
CcsVerifies(bound, public, incoming, proof) ==
  /\ proof.rounds = <<bound, proof.outputs>>
  /\ SharedPoint(incoming)
  /\ Len(proof.outputs) = Len(public.steps) + Len(incoming)
  /\ Coms(proof.outputs) = public.steps \o Coms(incoming)

\* The fold digest compared but not drawn from the transcript.
VerifyTransition_noDraw(mode, tr, public, digest, incoming, proof) ==
  LET bound == BindCcs(mode, AppendChunk(tr, public), public.steps, incoming, digest)
  IN  IF /\ proof.chunk = public /\ public.steps # <<>>
         /\ CcsVerifies(bound, public, incoming, proof)
         /\ RhosAvailable(Len(proof.outputs))
         /\ proof.parent = RlcParent(proof.outputs)
         /\ DecPublicOk(proof.parent, proof.children)
      THEN [ok |-> TRUE, tr |-> Append(bound, <<"rhos", Len(proof.outputs)>>), claims |-> proof.children]
      ELSE Refused

\* verify_chunk: metadata, Π_CCS, header and fold digests, Π_RLC recomputed,
\* Π_DEC checked; the children become the carry.
VerifyTransition(mode, tr, public, digest, incoming, proof) ==
  LET bound == BindCcs(mode, AppendChunk(tr, public), public.steps, incoming, digest)
  IN  IF /\ proof.chunk = public
         /\ public.steps # <<>> /\ proof.outputs # <<>>
         /\ CcsVerifies(bound, public, incoming, proof)
         /\ proof.header = bound
         /\ \A i \in DOMAIN proof.outputs : proof.outputs[i].fold = bound
         /\ RhosAvailable(Len(proof.outputs))
         /\ proof.parent = RlcParent(proof.outputs)
         /\ DecPublicOk(proof.parent, proof.children)
      THEN [ok |-> TRUE, tr |-> bound \o <<<<"digest32">>, <<"rhos", Len(proof.outputs)>>>>,
            claims |-> proof.children]
      ELSE Refused

\* verify_chunk_relation_with_witness: checks the recorded Π_CCS proof, then
\* finishes the transition from the witnesses.
ReplayTransition(tr, chunk, claims, wits, proof) ==
  IF Len(claims) # Len(wits) \/ chunk.steps = <<>> THEN Refused
  ELSE LET public == Public(chunk)
           bound == BindCcs("Optimized", AppendChunk(tr, chunk), public.steps, claims,
                            PublicChunkDigest(public))
           done == FinishTransition(Append(bound, <<"digest32">>), chunk, wits, proof.outputs)
       IN  IF /\ CcsVerifies(bound, public, claims, proof)
              /\ proof.header = bound
              /\ \A i \in DOMAIN proof.outputs : proof.outputs[i].fold = bound
           THEN [ok |-> done.ok, tr |-> done.tr, claims |-> done.children, wits |-> done.wits,
                 relation |-> done.relation]
           ELSE Refused
=============================================================================

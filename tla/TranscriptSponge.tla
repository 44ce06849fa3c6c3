-------------------------- MODULE TranscriptSponge --------------------------
(***************************************************************************)
(* The Fiat-Shamir transcript of neo-transcript: a duplex sponge that      *)
(* overwrites the lanes of its rate.  A transcript is a record of the      *)
(* sponge state and of how many rate lanes are written since the last      *)
(* permutation.  The state and its permutation are parameters; labels and  *)
(* messages are sequences of bytes.                                        *)
(***************************************************************************)
EXTENDS Integers, Sequences, SequencesExt

CONSTANTS
    Rate,             \* lanes that are written and squeezed
    BytesPerLimb,     \* bytes packed in one element (7 in the code)
    ByteBase,         \* number of byte values
    WordBase,         \* half-word radix of an encoded integer
    Chunk,            \* elements absorbed at a time by the buffered encoders
    ZeroState, Overwrite(_, _, _), Permute(_), Lane(_, _),
    AppDomain, ChalLabel, ForkLabel

ASSUME SpongeShape ==
    Rate \in Nat \ {0} /\ BytesPerLimb \in Nat \ {0} /\ Chunk \in Nat \ {0}

(* A step on the value v; TLC evaluates v to the end before the step. *)
After(v, step(_)) == CHOOSE w \in {step(u) : u \in {v}} : TRUE

PermuteNow(tr) == [st |-> Permute(tr.st), absorbed |-> 0]

Put(tr, x) == [st |-> Overwrite(tr.st, tr.absorbed, x), absorbed |-> tr.absorbed + 1]
PutAll(tr, xs) == FoldLeft(Put, tr, xs)

(* absorb_elem: a full rate is permuted only when the next element comes. *)
AbsorbElem(tr, x) ==
    After(tr, LAMBDA t : Put(IF t.absorbed >= Rate THEN PermuteNow(t) ELSE t, x))

(* xs cut into pieces of n, the last one perhaps shorter. *)
Chunks(xs, n) ==
    [k \in 1..((Len(xs) + n - 1) \div n) |->
        SubSeq(xs, (k - 1) * n + 1, IF k * n < Len(xs) THEN k * n ELSE Len(xs))]

(***************************************************************************)
(* absorb_slice: fill the rate, permute as soon as it is full, take whole  *)
(* blocks, and keep the rest.  The variant forgets the permutation after   *)
(* the fill, the plausible slip of an unrolled loop.                       *)
(***************************************************************************)
Block(tr, xs) == PermuteNow(PutAll([tr EXCEPT !.absorbed = 0], xs))

Blocks(tr, xs) ==
    LET whole == (Len(xs) \div Rate) * Rate
    IN  After(FoldLeft(Block, tr, Chunks(SubSeq(xs, 1, whole), Rate)),
              LAMBDA t : PutAll(t, SubSeq(xs, whole + 1, Len(xs))))

Room(tr, xs) == IF Rate - tr.absorbed < Len(xs) THEN Rate - tr.absorbed ELSE Len(xs)

FillRate(tr, xs) == PutAll(tr, SubSeq(xs, 1, Room(tr, xs)))

AbsorbSlice_noFlush(tr, xs) ==
    After(tr, LAMBDA t : After(FillRate(t, xs), LAMBDA head :
        Blocks(IF head.absorbed = Rate THEN [head EXCEPT !.absorbed = 0] ELSE head,
               SubSeq(xs, Room(t, xs) + 1, Len(xs)))))

AbsorbSlice(tr, xs) ==
    After(tr, LAMBDA t : After(FillRate(t, xs), LAMBDA head :
        Blocks(IF head.absorbed = Rate THEN PermuteNow(head) ELSE head,
               SubSeq(xs, Room(t, xs) + 1, Len(xs)))))

(***************************************************************************)
(* The buffered encoders hand their elements over Chunk at a time.         *)
(***************************************************************************)
AbsorbChunked(tr, xs, n) == After(tr, LAMBDA t : FoldLeft(AbsorbSlice, t, Chunks(xs, n)))

(* Little-endian. *)
Limb(bytes) == FoldLeft(LAMBDA acc, byte : byte + ByteBase * acc, 0, Reverse(bytes))
Limbs(bytes) == [k \in DOMAIN Chunks(bytes, BytesPerLimb) |-> Limb(Chunks(bytes, BytesPerLimb)[k])]

(* The variant without the length prefix. *)
AbsorbPackedBytes_noLength(tr, bytes) == AbsorbChunked(tr, Limbs(bytes), Chunk)
AbsorbPackedBytes(tr, bytes) ==
    AbsorbChunked(AbsorbElem(tr, Len(bytes)), Limbs(bytes), Chunk)

(* An integer as its low and its high half. *)
Halves(us) ==
    [i \in 1..(2 * Len(us)) |-> IF i % 2 = 1 THEN us[(i + 1) \div 2] % WordBase
                               ELSE us[i \div 2] \div WordBase]
AbsorbU64s(tr, us) == AbsorbChunked(tr, Halves(us), 2 * Chunk)

---------------------------------------------------------------------------
(* The interface *)

AppendMessage(tr, label, msg) == AbsorbPackedBytes(AbsorbPackedBytes(tr, label), msg)

AppendFields(tr, label, fs) ==
    AbsorbSlice(AbsorbElem(AbsorbPackedBytes(tr, label), Len(fs)), fs)

AppendFieldsIter(tr, label, fs) ==
    AbsorbChunked(AbsorbElem(AbsorbPackedBytes(tr, label), Len(fs)), fs, Chunk)

AppendU64s(tr, label, us) == AbsorbU64s(AbsorbElem(AbsorbPackedBytes(tr, label), Len(us)), us)

(* The gate before every squeeze. *)
Squeeze(tr) == After(AbsorbElem(tr, 1), PermuteNow)
Lanes(tr, n) == [i \in 1..n |-> Lane(tr.st, i - 1)]

(* challenge_fields, Rate outputs to a squeeze; challenge_field is n = 1.   *)
SqueezeMore(squeezed, n) ==
    After(squeezed, LAMBDA s : After(Squeeze(s.tr), LAMBDA t :
        [tr |-> t, out |-> s.out \o Lanes(t, n)]))

Portions(n) == [k \in 1..((n + Rate - 1) \div Rate) |-> IF k * Rate < n THEN Rate ELSE n - (k - 1) * Rate]

SqueezeFields(tr, n) == FoldLeft(SqueezeMore, [tr |-> tr, out |-> <<>>], Portions(n))

(* The variant squeezes without binding what for. *)
ChallengeFields_noLabel(tr, label, n) == SqueezeFields(tr, n)
ChallengeFields(tr, label, n) == SqueezeFields(AppendMessage(tr, ChalLabel, label), n)

Fork(tr, scope) == AppendMessage(tr, ForkLabel, scope)

(* digest32: the transcript goes on behind the squeeze. *)
Digest(tr) == After(Squeeze(tr), LAMBDA t : [tr |-> t, out |-> Lanes(t, Rate)])

NewTranscript(app) == AppendMessage([st |-> ZeroState, absorbed |-> 0], AppDomain, app)

=============================================================================

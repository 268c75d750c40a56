--------------------------- MODULE ReferenceVectors ---------------------------
(***************************************************************************)
(* The draft encodings and integer arithmetic of protocol/, written twice: *)
(* in Rust (reference/src) and in TypeScript (ts).  Each runs the vectors  *)
(* it is given (main.rs and vector-runner.mts, run).  A number is <<"n",   *)
(* x>>, a hash stands for what it was taken of, <<"h", inputs>>, and a     *)
(* domain for its name: hashes do not collide.  A vector is loose if its   *)
(* numbers are not all written as decimal strings in canonical form ("01", *)
(* "", 5), or a position has cells after its fourth.  Widths are           *)
(* parameters, as small as keeps Below["qty"] and Below["amount"] under    *)
(* half the field and MaskedBelow <= Field < Below["bytes32"].             *)
(***************************************************************************)
EXTENDS Integers, Sequences, FiniteSets

CONSTANTS
    Field,         \* the field's order
    Below,         \* kind -> what its magnitude must be below
    MaskedBelow,   \* 2^253
    Bps,           \* 10000
    TargetCap,     \* targets of an intent (7)
    GroupSize,     \* slots of one of the two groups of a note (8)
    Vectors,       \* bound: what may be run
    VectorLimit    \* bound: how many

VARIABLE answers   \* of [vector, rust, ts]

vars == <<answers>>

N(x) == <<"n", x>>
Refused == <<"refused">>
Answer(x) == <<"ok", x>>
Abs(x) == IF x < 0 THEN -x ELSE x
Above0(x) == IF x < 0 THEN 0 ELSE x

Signed == {"qty", "amount"}
Enums == [side |-> {1, 2}, tif |-> {1}, authMode |-> {0, 1}, snapCause |-> 1..4, leaseOp |-> {1, 2}]

--------------------------------------------------------------------------------
(* Scalars.                                                                  *)

\* Rust: one table of widths, the sign looked at inside.
RustEncode(kind, v) ==
    IF v[1] # "n" THEN v
    ELSE LET x == v[2] IN
         IF kind \in DOMAIN Below
         THEN CASE kind \in Signed /\ Abs(x) < Below[kind] -> N(IF x < 0 THEN Field + x ELSE x)
                [] kind \notin Signed /\ x \in 0..Below[kind] - 1 -> N(IF kind = "bytes32" THEN x % MaskedBelow ELSE x)
                [] OTHER -> Refused
         ELSE IF x \in (IF kind = "hash" THEN 0..Field - 1 ELSE Enums[kind]) THEN v ELSE Refused

\* Bytes are reduced modulo the field.
Masked_Field(x) == x % Field
Masked(x) == x % MaskedBelow
\* TypeScript: unsigned kinds, signed kinds, bytes and enumerations each by themselves.
TsEncode(kind, v) ==
    IF v[1] # "n" THEN v
    ELSE LET x == v[2] IN
         CASE kind \in Signed -> IF x > -Below[kind] /\ x < Below[kind] THEN N(IF x < 0 THEN Field + x ELSE x)
                                 ELSE Refused
           [] kind = "bytes32" -> IF x >= 0 /\ x < Below[kind] THEN N(Masked(x)) ELSE Refused
           [] kind \in DOMAIN Enums -> IF x \in Enums[kind] THEN v ELSE Refused
           [] kind = "hash" -> IF x >= 0 /\ x < Field THEN v ELSE Refused
           [] OTHER -> IF x >= 0 /\ x < Below[kind] THEN v ELSE Refused

Encode(runner, kind, v) == IF runner = "rust" THEN RustEncode(kind, v) ELSE TsEncode(kind, v)
Fits(runner, kind, x) == Encode(runner, kind, N(x)) # Refused

--------------------------------------------------------------------------------
(* Hashes: both languages build them alike, over their own scalars.          *)

Repeat(n, kinds) == [i \in 1..n * Len(kinds) |-> kinds[((i - 1) % Len(kinds)) + 1]]
Schema ==
    [INTENT_HDR |-> <<"u64", "u64", "u64", "u64", "u64", "bps", "tif", "u64", "u64">>,
     TARGETS |-> Repeat(TargetCap, <<"u64", "qty">>),
     INTENT |-> <<"hash", "hash", "hash">>, SIG |-> <<"hash", "u64">>,
     NOTE_HDR |-> <<"u64", "u64", "u64", "u64", "hash", "u64", "bool", "amount", "u64", "hash", "u64">>,
     SLOT |-> <<"address", "u64", "u64", "qty", "u64">>, SLOT_GROUP |-> Repeat(GroupSize, <<"hash">>),
     SLOTS |-> <<"hash", "hash">>, ANCHOR |-> <<"hash", "u64", "amount">>, NOTE_SECRET |-> <<"hash", "u64">>,
     NOTE |-> Repeat(4, <<"hash">>), NF |-> <<"hash", "u64", "u64">>]
Undomained == {"SLOT", "SLOT_GROUP", "NOTE_SECRET"}

Hash(runner, name, values) ==
    LET inputs == [i \in DOMAIN values |-> Encode(runner, Schema[name][i], values[i])] IN
    IF Len(values) # Len(Schema[name]) \/ \E i \in DOMAIN inputs: inputs[i] = Refused THEN Refused
    ELSE <<"h", IF name \in Undomained THEN inputs ELSE <<<<"domain", name>>>> \o inputs>>

\* The rows fill their places from the first, zeros the others.
Padded(row, size) == [i \in 1..size |-> IF i <= Len(row) THEN row[i] ELSE N(0)]
Flat(rows) == [i \in 1..2 * Len(rows) |-> rows[(i + 1) \div 2][IF i % 2 = 1 THEN 1 ELSE 2]]
Distinct(rows, place) == \A i, j \in DOMAIN rows: rows[i][place] = rows[j][place] => i = j

\* The header says nothing of how many targets there are.
FullHeader_Uncounted(header, targets) == Append(header, N(0))
FullHeader(header, targets) == Append(header, N(Len(targets)))
Intent(runner, header, targets, salt) ==
    LET comm == Hash(runner, "INTENT",
                     <<Hash(runner, "INTENT_HDR", FullHeader(header, targets)),
                       Hash(runner, "TARGETS", Padded(Flat(targets), 2 * TargetCap)), salt>>)
    IN IF Len(header) = 8 /\ Len(targets) \in 1..TargetCap /\ Distinct(targets, 1) /\ comm # Refused
       THEN Answer([comm |-> comm, message |-> Hash(runner, "SIG", <<comm, header[4]>>)])
       ELSE Refused

Note(runner, header, slots, anchor, secret) ==
    LET leaves == Padded([i \in DOMAIN slots |-> Hash(runner, "SLOT", slots[i])], 2 * GroupSize)
        groups == Hash(runner, "SLOTS", <<Hash(runner, "SLOT_GROUP", SubSeq(leaves, 1, GroupSize)),
                                          Hash(runner, "SLOT_GROUP", SubSeq(leaves, GroupSize + 1, 2 * GroupSize))>>)
        hidden == Hash(runner, "NOTE_SECRET", <<secret, header[2]>>)
        comm == Hash(runner, "NOTE",
                     <<Hash(runner, "NOTE_HDR", header), groups, Hash(runner, "ANCHOR", anchor), hidden>>)
    IN IF /\ Len(header) = 11 /\ Len(slots) <= 2 * GroupSize /\ header[9] = N(Len(slots))
          /\ Distinct(slots, 2) /\ comm # Refused
       THEN Answer([comm |-> comm, nullifier |-> Hash(runner, "NF", <<hidden, header[1], header[2]>>)])
       ELSE Refused

--------------------------------------------------------------------------------
(* Arithmetic, in each language: over its own scalars, and its own signs.   *)

RustDelta(target, position, open) ==
    IF /\ \A x \in {target, position, open, target - position}: Fits("rust", "qty", x)
       /\ open = 0
    THEN Answer(target - position) ELSE Refused
TsDelta(target, position, open) ==
    LET result == target - position IN
    IF (\E x \in {target, position, open}: ~Fits("ts", "qty", x)) \/ open # 0 \/ ~Fits("ts", "qty", result)
    THEN Refused ELSE Answer(result)

RustReduction(position, delta) ==
    LET after == position + delta IN
    IF ~\A x \in {position, delta, after}: Fits("rust", "qty", x) THEN Refused
    ELSE Answer(Abs(after) <= Abs(position) /\ after * position >= 0)
TsReduction(position, delta) ==
    LET after == position + delta IN
    IF ~\A x \in {position, delta, after}: Fits("ts", "qty", x) THEN Refused
    ELSE Answer(Abs(after) <= Abs(position) /\ IF position = 0 THEN after = 0 ELSE after * position >= 0)

\* Rounded down.
CeilDiv_Floor(n, d) == n \div d
CeilDiv(n, d) == (n + d - 1) \div d
TsCeilDiv(n, d) == (n + d - 1) \div d

RustMinimum(position, bps) ==
    IF Fits("rust", "qty", position) /\ Fits("rust", "bps", bps) /\ bps <= Bps
    THEN Answer(CeilDiv(Abs(position) * bps, Bps)) ELSE Refused
TsMinimum(position, bps) ==
    IF ~Fits("ts", "qty", position) \/ ~Fits("ts", "bps", bps) \/ bps > Bps THEN Refused
    ELSE Answer(TsCeilDiv((IF position < 0 THEN -position ELSE position) * bps, Bps))

RustDraw(margin, credit, available) ==
    LET draw == Above0(margin - credit) IN
    IF /\ \A x \in {margin, credit, available}: Fits("rust", "amount", x)
       /\ credit >= 0 /\ available >= 0 /\ draw <= available
    THEN Answer(draw) ELSE Refused
TsDraw(margin, credit, available) ==
    LET draw == IF margin > credit THEN margin - credit ELSE 0 IN
    IF /\ \A x \in {margin, credit, available}: Fits("ts", "amount", x)
       /\ ~(credit < 0) /\ ~(available < 0) /\ ~(draw > available)
    THEN Answer(draw) ELSE Refused

\* The value of a position; both multiply before they divide.
RustNotional(p) ==
    IF Fits("rust", "qty", p.qty) /\ Fits("rust", "price", p.price) /\ \A x \in {p.price, p.num, p.den} : x > 0
    THEN Answer(CeilDiv(Abs(p.qty) * p.price * p.num, p.den)) ELSE Refused
TsNotional(p) ==
    IF ~Fits("ts", "qty", p.qty) \/ ~Fits("ts", "price", p.price) \/ p.price <= 0 \/ p.num <= 0 \/ p.den <= 0
    THEN Refused ELSE Answer(TsCeilDiv((IF p.qty < 0 THEN -p.qty ELSE p.qty) * p.price * p.num, p.den))

\* Two positions at most are enough to add up.
RustLeverage(positions, equity, haircut, limit) ==
    LET values == [i \in 1..2 |-> RustNotional(positions[i])] IN
    IF /\ Fits("rust", "amount", equity) /\ Fits("rust", "bps", haircut) /\ Fits("rust", "bps", limit)
       /\ haircut <= Bps /\ \A i \in 1..2 : values[i] # Refused
    THEN Answer((values[1][2] + values[2][2]) * Bps * Bps <= Above0(equity) * (Bps - haircut) * limit)
    ELSE Refused
TsLeverage(positions, equity, haircut, limit) ==
    LET values == [i \in 1..2 |-> TsNotional(positions[i])]
        available == IF equity > 0 THEN equity ELSE 0
    IN IF \/ ~Fits("ts", "amount", equity) \/ ~Fits("ts", "bps", haircut) \/ ~Fits("ts", "bps", limit)
          \/ haircut > Bps \/ \E i \in 1..2 : values[i] = Refused
       THEN Refused
       ELSE Answer((values[1][2] + values[2][2]) * Bps * Bps <= available * (Bps - haircut) * limit)

--------------------------------------------------------------------------------
\* Every number is read by integer(), which takes the canonical form only; a position has
\* four cells.
Rust(v) ==
    CASE v.loose -> Refused
      [] v.op = "encode" -> RustEncode(v.type, N(v.value))
      [] v.op = "intent" -> Intent("rust", v.header, v.targets, v.salt)
      [] v.op = "note" -> Note("rust", v.header, v.slots, v.anchor, v.secret)
      [] v.op = "delta" -> RustDelta(v.target, v.position, v.open)
      [] v.op = "reduction" -> RustReduction(v.position, v.delta)
      [] v.op = "minimumReduction" -> RustMinimum(v.position, v.bps)
      [] v.op = "custodyDraw" -> RustDraw(v.margin, v.credit, v.available)
      [] v.op = "leverage" -> RustLeverage(v.positions, v.equity, v.haircut, v.limit)

\* The codec reads the canonical form only; the runner reads the numbers of the arithmetic
\* by BigInt(), which takes the loose ones, and a position's first four cells.
ByCodec == {"encode", "intent", "note"}
Ts(v) ==
    CASE v.loose /\ v.op \in ByCodec -> Refused
      [] v.op = "encode" -> TsEncode(v.type, N(v.value))
      [] v.op = "intent" -> Intent("ts", v.header, v.targets, v.salt)
      [] v.op = "note" -> Note("ts", v.header, v.slots, v.anchor, v.secret)
      [] v.op = "delta" -> TsDelta(v.target, v.position, v.open)
      [] v.op = "reduction" -> TsReduction(v.position, v.delta)
      [] v.op = "minimumReduction" -> TsMinimum(v.position, v.bps)
      [] v.op = "custodyDraw" -> TsDraw(v.margin, v.credit, v.available)
      [] v.op = "leverage" -> TsLeverage(v.positions, v.equity, v.haircut, v.limit)

Init == answers = {}

Run(v) ==
    /\ Cardinality(answers) < VectorLimit
    /\ answers' = answers \cup {[vector |-> v, rust |-> Rust(v), ts |-> Ts(v)]}

Next == \E v \in Vectors: Run(v)

--------------------------------------------------------------------------------
Accepted == {a \in answers: a.rust # Refused}

\* The two programs answer alike every vector that is written in canonical form, the
\* refused ones included (main.rs and vector-runner.mts, run; the fixed vectors are a sample
\* of these), by different signs, ceilings and masks.  Of another one Rust refuses
\* everything; TypeScript refuses what its codec reads, and answers the arithmetic as it
\* does the canonical vector of the same numbers.
SameAnswers ==
    \A a \in answers :
        /\ ~a.vector.loose => a.rust = a.ts
        /\ a.vector.loose => a.rust = Refused /\ (a.vector.op \in ByCodec => a.ts = Refused)
        /\ \A b \in answers :
              (a.vector.loose /\ a.vector.op \notin ByCodec /\ b.vector = [a.vector EXCEPT !.loose = FALSE])
                  => a.ts = b.rust

\* A commitment is to one thing: two intents or notes that were accepted with the same
\* commitment are the same, a note's nullifier depends on its secret and first two fields
\* alone, and two scalars of a kind are encoded alike only if equal, bytes32 apart
\* (lib.rs: no_field_aliases).
CommitmentsBind ==
    \A a, b \in Accepted:
        /\ (/\ a.vector.op \in {"intent", "note"} /\ b.vector.op \in {"intent", "note"}
            /\ a.rust[2].comm = b.rust[2].comm) => a.vector = b.vector
        /\ a.vector.op = "note" /\ b.vector.op = "note" =>
            (a.rust[2].nullifier = b.rust[2].nullifier <=>
                /\ a.vector.secret = b.vector.secret
                /\ SubSeq(a.vector.header, 1, 2) = SubSeq(b.vector.header, 1, 2))
        /\ (/\ a.vector.op = "encode" /\ b.vector.op = "encode" /\ a.vector.type = b.vector.type
            /\ a.vector.type # "bytes32" /\ a.rust = b.rust) => a.vector = b.vector

\* Rounding is against the trader: at least the asked share of a position is given up and
\* not a unit more than it takes, and positions within the limit are so before rounding
\* (model.rs, minimum_reduction and leverage).
RoundedUp ==
    \A a \in Accepted:
        LET v == a.vector IN
        /\ v.op = "minimumReduction" =>
            /\ a.rust[2] * Bps >= Abs(v.position) * v.bps
            /\ (a.rust[2] - 1) * Bps < Abs(v.position) * v.bps
        /\ v.op = "leverage" /\ a.rust[2] =>
            LET p == v.positions[1]
                q == v.positions[2]
            IN Bps * Bps * (Abs(p.qty) * p.price * p.num * q.den + Abs(q.qty) * q.price * q.num * p.den)
               <= Above0(v.equity) * (Bps - v.haircut) * v.limit * p.den * q.den
================================================================================

------------------------------- MODULE Codec ----------------------------------
(***************************************************************************)
(* Reading and writing of bytes: the Parser and the Writer of              *)
(* utils/codec.py.  A message class is described by two layouts, one for   *)
(* what its parse() reads and one for what its write() writes; a layout is *)
(* a sequence of fields and the two methods are translated separately.     *)
(*                                                                         *)
(* A value has one entry per field.  A number of more than three bytes is  *)
(* kept as its bytes.  Reading returns [ok, val, rest] or the exception,   *)
(* writing returns [ok, bytes] or the exception.                           *)
(***************************************************************************)
EXTENDS Integers, Sequences, SequencesExt

CONSTANT None   \* Python's None

-------------------------------------------------------------------------------
\* The fields of layouts.

Uint(n)       == [op |-> "int", n |-> n]               \* a number of n bytes
Fix(n)        == [op |-> "fix", n |-> n]               \* n bytes
Rest          == [op |-> "rest"]                       \* the bytes that remain
Var(l)        == [op |-> "var", l |-> l]               \* length of l bytes, bytes
Bool          == [op |-> "bool"]                       \* a number, as a Boolean
Num(f)        == [op |-> "num", f |-> f]               \* bytes of a number
List(w, l)    == [op |-> "list", w |-> w, l |-> l]     \* length, numbers of w bytes
Tuples(w, k, l) == [op |-> "tuples", w |-> w, k |-> k, l |-> l]
Items(l, g)   == [op |-> "items", l |-> l, g |-> g]    \* length, records of layout g
Loop(g)       == [op |-> "loop", g |-> g]              \* records up to the end
Checked(l, g) == [op |-> "checked", l |-> l, g |-> g]  \* length, exactly layout g
Grp(g)        == [op |-> "grp", g |-> g]               \* layout g as one value
Opt(f)        == [op |-> "opt", f |-> f]               \* None if nothing remains
Parts(ws)     == [op |-> "parts", ws |-> ws]           \* all lengths, then all lists
Ext(t, ls)    == [op |-> "ext", table |-> t, layouts |-> ls]  \* an extension

\* Algorithm, length and layout g compressed; send and receive are the
\* algorithms that can compress and decompress.
Packed(g, send, receive) ==
    [op |-> "packed", g |-> g, send |-> send, receive |-> receive]

\* A field that only takes the values S; another one raises err.
Only(f, S, err) == [op |-> "only", f |-> f, S |-> S, err |-> err]
\* Bytes of which there must be between lo and hi.
Lim(f, lo, hi) == [op |-> "lim", f |-> f, lo |-> lo, hi |-> hi]
\* ASN.1, taken for well formed if it starts as a SEQUENCE does.
Der(f, err) == [op |-> "der", f |-> f, err |-> err]
\* f if the i-th value is in S, g otherwise.
Case(i, S, f, g) == [op |-> "case", i |-> i, S |-> S, f |-> f, g |-> g]

\* Fields without a value: nothing may remain, something must remain, a field
\* that is read and dropped, the padding of the message's first value.
EndOr(err)  == [op |-> "end", err |-> err]
NeedOr(err) == [op |-> "need", err |-> err]
End     == EndOr("DecodeError")
Need    == NeedOr("DecodeError")
Drop(f) == [op |-> "drop", f |-> f]
Pad     == [op |-> "pad"]

Valueless == {"end", "need", "drop", "pad"}

-------------------------------------------------------------------------------
Number(b) == FoldLeft(LAMBDA a, x : 256 * a + x, 0, b)
Digits(x, n) == [i \in 1..n |-> (x \div 256 ^ (n - i)) % 256]
Zeros(n) == [i \in 1..n |-> 0]
\* bytesToNumber() forgets leading zeros; numberToByteArray() writes at
\* least one byte.
Stripped(b) ==
    LET first == SelectInSeq(b, LAMBDA x : x # 0)
    IN  IF first = 0 THEN <<0>> ELSE SubSeq(b, first, Len(b))

Ok(v, b) == [ok |-> TRUE, val |-> v, rest |-> b]
Raises(e) == [ok |-> FALSE, err |-> e]
Bytes(b) == [ok |-> TRUE, bytes |-> b]

\* To go on with the value and the bytes that remain, with what was written;
\* an exception ends both.
Then(r, F(_, _)) == IF r.ok THEN F(r.val, r.rest) ELSE r
Onto(w, F(_)) == IF w.ok THEN F(w.bytes) ELSE w

-------------------------------------------------------------------------------
\* The Parser.

ReadFix(n, b) ==
    IF n > Len(b) THEN Raises("DecodeError")
                  ELSE Ok(SubSeq(b, 1, n), SubSeq(b, n + 1, Len(b)))

ReadInt(n, b) ==
    Then(ReadFix(n, b), LAMBDA x, rest : Ok(Number(x), rest))

ReadVar(l, b) == Then(ReadInt(l, b), ReadFix)

Cut(b, w) == [i \in 1..(Len(b) \div w) |->
                 Number(SubSeq(b, w * (i - 1) + 1, w * i))]

ReadList(w, l, b) ==
    Then(ReadVar(l, b), LAMBDA x, rest :
        IF Len(x) % w # 0 THEN Raises("DecodeError") ELSE Ok(Cut(x, w), rest))

Grouped(c, k) ==
    [i \in 1..(Len(c) \div k) |-> SubSeq(c, k * (i - 1) + 1, k * i)]

ReadTuples(w, k, l, b) ==
    Then(ReadVar(l, b), LAMBDA x, rest :
        IF Len(x) % (w * k) # 0 THEN Raises("DecodeError")
                                ELSE Ok(Grouped(Cut(x, w), k), rest))

\* setLengthCheck() with the sum of the lengths, getFixBytes() or
\* getFixList() for each of them, stopLengthCheck().  A length that is not a
\* multiple of the item's size makes the sum wrong.
ReadParts(ws, b) ==
    LET k == Len(ws)
        lens == [i \in 1..k |-> Number(SubSeq(b, 2 * i - 1, 2 * i))]
        ends == [i \in 0..k |->
                    2 * k + FoldLeft(LAMBDA a, x : a + x, 0, SubSeq(lens, 1, i))]
    IN  IF \/ Len(b) < 2 * k \/ Len(b) < ends[k]
           \/ \E i \in 1..k : lens[i] % ws[i] # 0
        THEN Raises("DecodeError")
        ELSE Ok([i \in 1..k |-> Cut(SubSeq(b, ends[i-1] + 1, ends[i]), ws[i])],
                SubSeq(b, ends[k] + 1, Len(b)))

RECURSIVE ReadField(_, _, _), ReadLayout(_, _, _), ReadRecords(_, _, _)

ReadLayout(g, b, acc) ==
    IF Len(g) = 0 THEN Ok(acc, b)
    ELSE Then(ReadField(Head(g), b, acc), LAMBDA x, rest :
             ReadLayout(Tail(g), rest,
                        IF Head(g).op \in Valueless THEN acc ELSE Append(acc, x)))

ReadRecords(g, b, acc) ==
    IF b = <<>> THEN Ok(acc, b)
    ELSE Then(ReadLayout(g, b, <<>>), LAMBDA x, rest :
             ReadRecords(g, rest, Append(acc, x)))

ReadItems(l, g, b) ==
    Then(ReadVar(l, b), LAMBDA x, rest :
        Then(ReadRecords(g, x, <<>>), LAMBDA items, none : Ok(items, rest)))

\* startLengthCheck() ... stopLengthCheck().
ReadChecked(l, g, b) ==
    Then(ReadVar(l, b), LAMBDA x, rest :
        Then(ReadLayout(g, x, <<>>), LAMBDA fields, more :
            IF more # <<>> THEN Raises("DecodeError") ELSE Ok(fields, rest)))

\* Compression is a mark of its algorithm and the level the compressor chose,
\* in front of the data: whatever the level, decompressing gives the data.
_compress(alg, b, send) ==
    IF alg \in send THEN Bytes(<<alg, 0>> \o b) ELSE Raises("ValueError")

\* Mutant: an error of the library is passed on.
DecompressUnwrapped(alg, n, b, receive) ==
    IF alg \notin receive THEN Raises("TLSIllegalParameterException")
    ELSE IF Len(b) < 2 \/ b[1] # alg \/ Len(b) # n + 2 THEN Raises("zlib.error")
    ELSE Bytes(SubSeq(b, 3, Len(b)))

_decompress(alg, n, b, receive) ==
    IF alg \notin receive THEN Raises("TLSIllegalParameterException")
    ELSE IF Len(b) < 2 \/ b[1] # alg \/ Len(b) # n + 2
         THEN Raises("BadCertificateError")
    ELSE Bytes(SubSeq(b, 3, Len(b)))

\* What was decompressed and read is compressed again, to be written.
ReadPacked(f, b) ==
    Then(ReadLayout(<<Uint(2), Uint(3), Lim(Var(3), 1, 256 ^ 3), End>>, b, <<>>),
         LAMBDA r, none :
             Onto(_decompress(r[1], r[2], r[3], f.receive), LAMBDA data :
                 Then(ReadLayout(f.g \o <<End>>, data, <<>>), LAMBDA fields, end :
                     Onto(_compress(r[1], data, f.send), LAMBDA again :
                         Ok(<<r[1], fields>>, <<>>)))))

\* TLSExtension.parse() and _parseExt(): the class registered for the type
\* gets a parser of the payload alone.  table gives the class.
ReadExt(table, layouts, b) ==
    Then(ReadInt(2, b), LAMBDA type, after :
        Then(ReadVar(2, after), LAMBDA data, rest :
            IF type \notin DOMAIN table
            THEN Ok(<<type, "TLSExtension", <<data>>>>, rest)
            ELSE Then(ReadLayout(layouts[table[type]].parse, data, <<>>),
                      LAMBDA x, more : Ok(<<type, table[type], x>>, rest))))

\* Fields that hold another one look at what it reads.
Holds == {"num", "only", "der", "lim", "drop"}

\* The value x, read by the field that f holds, is one that f takes.
Takes(f, x) ==
    CASE f.op = "only" -> x \in f.S
      [] f.op = "der"  -> x # <<>> /\ x[1] = 48
      [] f.op = "lim"  -> Len(x) \in f.lo..f.hi
      [] OTHER         -> TRUE

ReadHeld(f, b, acc) ==
    Then(ReadField(f.f, b, acc), LAMBDA x, rest :
        IF ~ Takes(f, x)
        THEN Raises(IF f.op = "lim" THEN "DecodeError" ELSE f.err)
        ELSE Ok(IF f.op = "num" THEN Stripped(x) ELSE x, rest))

ReadField(f, b, acc) ==
    CASE f.op = "int"     -> ReadInt(f.n, b)
      [] f.op = "bool"    -> Then(ReadInt(1, b), LAMBDA x, rest : Ok(x # 0, rest))
      [] f.op = "fix"     -> ReadFix(f.n, b)
      [] f.op = "rest"    -> Ok(b, <<>>)
      [] f.op = "var"     -> ReadVar(f.l, b)
      [] f.op = "list"    -> ReadList(f.w, f.l, b)
      [] f.op = "tuples"  -> ReadTuples(f.w, f.k, f.l, b)
      [] f.op = "items"   -> ReadItems(f.l, f.g, b)
      [] f.op = "loop"    -> ReadRecords(f.g, b, <<>>)
      [] f.op = "checked" -> ReadChecked(f.l, f.g, b)
      [] f.op = "grp"     -> ReadLayout(f.g, b, <<>>)
      [] f.op = "opt"     -> IF b = <<>> THEN Ok(None, b) ELSE ReadField(f.f, b, acc)
      [] f.op = "parts"   -> ReadParts(f.ws, b)
      [] f.op = "ext"     -> ReadExt(f.table, f.layouts, b)
      [] f.op = "packed"  -> ReadPacked(f, b)
      [] f.op = "case"    -> ReadField(IF acc[f.i] \in f.S THEN f.f ELSE f.g, b, acc)
      [] f.op = "end"     -> IF b = <<>> THEN Ok(None, b) ELSE Raises(f.err)
      [] f.op = "need"    -> IF b = <<>> THEN Raises(f.err) ELSE Ok(None, b)
      [] f.op \in Holds   -> ReadHeld(f, b, acc)

Read(layout, b) == ReadLayout(layout, b, <<>>)

-------------------------------------------------------------------------------
\* The Writer.

WriteInt(x, n) ==
    IF n < 4 /\ x >= 256 ^ n THEN Raises("ValueError") ELSE Bytes(Digits(x, n))

\* A length and the bytes it counts.
WithLength(b, l) ==
    Onto(WriteInt(Len(b), l), LAMBDA n : Bytes(n \o b))

\* What the parts write, in order, or the first exception.
Joined(parts) ==
    FoldLeft(LAMBDA w, p : Onto(w, LAMBDA b : Onto(p, LAMBDA c : Bytes(b \o c))),
             Bytes(<<>>), parts)

AddLength(w, l) == Onto(w, LAMBDA b : WithLength(b, l))

WriteInts(xs, w) == Joined([i \in 1..Len(xs) |-> WriteInt(xs[i], w)])

WriteVarSeq(xs, w, l) == AddLength(WriteInts(xs, w), l)

WriteTupleSeq(ts, w, k, l) ==
    IF \E i \in 1..Len(ts) : Len(ts[i]) # k THEN Raises("ValueError")
    ELSE WriteVarSeq(FlattenSeq(ts), w, l)

WriteParts(xs, ws) ==
    LET parts == [i \in 1..Len(ws) |-> WriteInts(xs[i], ws[i])]
        lens == [i \in 1..Len(ws) |-> WriteInt(ws[i] * Len(xs[i]), 2)]
    IN  Joined(lens \o parts)

RECURSIVE WriteField(_, _, _), WriteLayout(_, _)

WriteLayout(g, v) ==
    LET index(i) == Len(SelectSeq(SubSeq(g, 1, i),
                                  LAMBDA f : f.op \notin Valueless))
    IN  Joined([i \in 1..Len(g) |->
                   WriteField(g[i],
                              IF g[i].op \in Valueless THEN None ELSE v[index(i)],
                              v)])

WriteRecords(g, xs) ==
    IF xs = None THEN Raises("TypeError")
    ELSE Joined([i \in 1..Len(xs) |-> WriteLayout(g, xs[i])])

\* TLSExtension.write() of an extension of the class x[2].
WriteExt(layouts, x) ==
    LET data == AddLength(WriteLayout(layouts[x[2]].write, x[3]), 2)
    IN  Joined(<<WriteInt(x[1], 2), data>>)

WritePacked(f, x) ==
    Onto(WriteLayout(f.g, x[2]), LAMBDA data :
        Onto(_compress(x[1], data, f.send), LAMBDA packed :
            Joined(<<WriteInt(x[1], 2), WriteInt(Len(data), 3),
                     WithLength(packed, 3)>>)))

WriteField(f, x, v) ==
    CASE f.op = "int"     -> WriteInt(x, f.n)
      [] f.op = "bool"    -> WriteInt(IF x THEN 1 ELSE 0, 1)
      [] f.op = "fix"     -> IF Len(x) = f.n THEN Bytes(x) ELSE Raises("TLSInternalError")
      [] f.op = "rest"    -> Bytes(x)
      [] f.op = "var"     -> WithLength(x, f.l)
      [] f.op = "num"     -> WriteField(f.f, x, v)
      [] f.op = "list"    -> WriteVarSeq(x, f.w, f.l)
      [] f.op = "tuples"  -> WriteTupleSeq(x, f.w, f.k, f.l)
      [] f.op = "items"   -> AddLength(WriteRecords(f.g, x), f.l)
      [] f.op = "loop"    -> WriteRecords(f.g, x)
      [] f.op = "checked" -> AddLength(WriteLayout(f.g, x), f.l)
      [] f.op = "grp"     -> WriteLayout(f.g, x)
      [] f.op = "opt"     -> IF x = None THEN Bytes(<<>>) ELSE WriteField(f.f, x, v)
      [] f.op = "parts"   -> WriteParts(x, f.ws)
      [] f.op = "ext"     -> WriteExt(f.layouts, x)
      [] f.op = "packed"  -> WritePacked(f, x)
      [] f.op = "only"    -> IF x \in f.S THEN WriteField(f.f, x, v) ELSE Raises(f.err)
      [] f.op = "case"    -> WriteField(IF v[f.i] \in f.S THEN f.f ELSE f.g, x, v)
      [] f.op = "pad"     -> WithLength(Zeros(32 - ((Len(v[1]) + 2) % 32)), 1)

Write(layout, v) == WriteLayout(layout, v)
===============================================================================

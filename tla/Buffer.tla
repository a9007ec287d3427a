-------------------------------- MODULE Buffer ---------------------------------
(***************************************************************************)
(* muduo::net::Buffer, the byte buffer of the connections: one array, the  *)
(* readable bytes between two indices, free room before and after them.    *)
(***************************************************************************)
EXTENDS Integers, Sequences, FiniteSets

CONSTANTS
    kCheapPrepend, kInitialSize,
    ExtraSize,     \* sizeof extrabuf of readFd
    Bytes,         \* the values of a byte
    IntSizes,      \* the sizes of the integers, in bytes
    MaxLen,        \* bound: the bytes of one call
    MaxSize        \* bound: the size of the array

ASSUME BufferAssumption ==
    kCheapPrepend \in Nat /\ kInitialSize \in Nat \ {0} /\ ExtraSize \in Nat
    /\ MaxLen \in Nat
    /\ IsFiniteSet(Bytes) /\ Bytes = 0..(Cardinality(Bytes) - 1) /\ Bytes # {}
    /\ IntSizes \subseteq Nat \ {0}

VARIABLES
    buffer,                      \* buffer_
    readerIndex, writerIndex,    \* readerIndex_ and writerIndex_
    call                         \* history: the last call, as in ByteQueue

bufferVars == <<buffer, readerIndex, writerIndex, call>>

Fresh(size) == [i \in 1..size |-> 0]
BufferInit ==
    /\ buffer = Fresh(kCheapPrepend + kInitialSize)
    /\ readerIndex = kCheapPrepend /\ writerIndex = kCheapPrepend
    /\ call = [op |-> "tidy", bytes |-> <<>>]

(* The const members, of a buffer b = [array, r, w]. *)
This == [array |-> buffer, r |-> readerIndex, w |-> writerIndex]
readableBytes(b) == b.w - b.r
writableBytes(b) == Len(b.array) - b.w
prependableBytes(b) == b.r
toStringPiece(b) == SubSeq(b.array, b.r + 1, b.w)
Become(b) == buffer' = b.array /\ readerIndex' = b.r /\ writerIndex' = b.w

Copied(array, at, s) ==
    [i \in DOMAIN array |-> IF i - at \in DOMAIN s THEN s[i - at] ELSE array[i]]

(* makeSpace: grow at the end, or move the readable bytes to the front. *)
Grows(b, len) == writableBytes(b) + prependableBytes(b) < len + kCheapPrepend
makeSpace(b, len) ==
    IF Grows(b, len)
    THEN [array |-> b.array \o Fresh(b.w + len - Len(b.array)), r |-> b.r, w |-> b.w]
    ELSE [array |-> Copied(b.array, kCheapPrepend, toStringPiece(b)),
          r |-> kCheapPrepend, w |-> kCheapPrepend + readableBytes(b)]
ensureWritableBytes(b, len) == IF writableBytes(b) < len THEN makeSpace(b, len) ELSE b
(* append: the bytes go behind the readable ones. *)
Filled(b, s) == [array |-> Copied(b.array, b.w, s), r |-> b.r, w |-> b.w + Len(s)]
afterAppend(b, s) == Filled(ensureWritableBytes(b, Len(s)), s)

Call(op, bytes) == call' = [op |-> op, bytes |-> bytes]
Strings == UNION {[1..n -> Bytes] : n \in 0..MaxLen}

-------------------------------------------------------------------------------
append == \E s \in Strings : Become(afterAppend(This, s)) /\ Call("pushBack", s)

(* retrieve, and the calls that give back what they retrieve. *)
Drained(b, len) ==
    IF len < readableBytes(b) THEN [b EXCEPT !.r = @ + len]
    ELSE [array |-> b.array, r |-> kCheapPrepend, w |-> kCheapPrepend]
retrieve == \E len \in 0..readableBytes(This) :
    /\ Become(Drained(This, len))
    /\ Call("popFront", SubSeq(toStringPiece(This), 1, len))

unwrite == \E len \in 0..readableBytes(This) :
    /\ Become([This EXCEPT !.w = @ - len])
    /\ Call("popBack", SubSeq(buffer, writerIndex - len + 1, writerIndex))

afterPrepend(b, s) ==
    [array |-> Copied(b.array, b.r - Len(s), s), r |-> b.r - Len(s), w |-> b.w]
prepend == \E s \in Strings :
    /\ Len(s) <= prependableBytes(This)
    /\ Become(afterPrepend(This, s)) /\ Call("pushFront", s)

(* The integers, of two's complement, most significant byte first. *)
Power(n) ==
    LET p[k \in 0..n] == IF k = 0 THEN 1 ELSE Cardinality(Bytes) * p[k - 1] IN p[n]
Ints(n) == -(Power(n) \div 2)..((Power(n) - 1) \div 2)
hostToNetwork(x, n) == [i \in 1..n |-> (x \div Power(n - i)) % Power(1)]
networkToHost(s) ==
    LET u[k \in 0..Len(s)] == IF k = 0 THEN 0 ELSE Power(1) * u[k - 1] + s[k]
    IN IF u[Len(s)] \in Ints(Len(s)) THEN u[Len(s)] ELSE u[Len(s)] - Power(Len(s))
peekInt(b, n) == networkToHost(SubSeq(toStringPiece(b), 1, n))

appendInt == \E n \in IntSizes : \E x \in Ints(n) :
    LET s == hostToNetwork(x, n) IN Become(afterAppend(This, s)) /\ Call("pushBack", s)
(* What is read goes out again as the bytes that came in. *)
readInt == \E n \in IntSizes :
    /\ n <= readableBytes(This)
    /\ Become(Drained(This, n)) /\ Call("popFront", hostToNetwork(peekInt(This, n), n))
prependInt == \E n \in IntSizes : \E x \in Ints(n) :
    /\ n <= prependableBytes(This)
    /\ LET s == hostToNetwork(x, n) IN Become(afterPrepend(This, s)) /\ Call("pushFront", s)

(* shrink: a new buffer of the initial size, or larger. *)
shrink == \E reserve \in 0..MaxLen :
    LET other == [array |-> Fresh(kCheapPrepend + kInitialSize),
                  r |-> kCheapPrepend, w |-> kCheapPrepend]
    IN /\ Become(afterAppend(ensureWritableBytes(other, readableBytes(This) + reserve),
                          toStringPiece(This)))
       /\ Call("tidy", <<>>)

(* readFd: as much as the array has room for, the rest by way of extrabuf. *)
Direct_Whole(s) == s
Direct(s) == SubSeq(s, 1, writableBytes(This))
Room == writableBytes(This) + (IF writableBytes(This) < ExtraSize THEN ExtraSize ELSE 0)
readFd == \E s \in Strings \ {<<>>} :
    /\ Len(s) <= Room /\ Call("pushBack", s)
    /\ IF Len(s) <= writableBytes(This)
       THEN Become(Filled(This, s))
       ELSE LET full == Filled(This, Direct(s))
            IN Become(afterAppend(full, SubSeq(s, Len(Direct(s)) + 1, Len(s))))

BufferNext ==
    \/ append \/ retrieve \/ unwrite \/ prepend \/ shrink \/ readFd
    \/ appendInt \/ readInt \/ prependInt
Bounded == Len(buffer') <= MaxSize
BufferSpec == BufferInit /\ [][BufferNext /\ Bounded]_bufferVars

-------------------------------------------------------------------------------
(* Buffer.h:35-41: 0 <= readerIndex <= writerIndex <= size; and the room for a
   header in front, but for what prepend has used, is never lost: makeSpace
   restores it, and its assertion at 400 holds. *)
BufferTypeOK ==
    /\ buffer \in Seq(Bytes)
    /\ 0 <= readerIndex /\ readerIndex <= writerIndex /\ writerIndex <= Len(buffer)
    /\ Len(buffer) >= kCheapPrepend + kInitialSize
SpaceAssertion ==
    \A len \in 0..MaxLen :
        LET b == ensureWritableBytes(This, len) IN
        /\ writableBytes(b) >= len
        /\ b # This /\ ~Grows(This, len) => kCheapPrepend < readerIndex

(* The readable bytes are a queue of bytes: whatever is moved, grown, shrunk or
   read in two pieces, each call adds its bytes at one end,
   or gives back those of one end, and changes nothing else. *)
Queue == INSTANCE ByteQueue WITH content <- toStringPiece(This)
IsByteQueue == Queue!QueueSpec

(* Buffer.h: the bytes come out as they went in, and the asserts on the free
   space hold. *)
BufferKept == [](BufferTypeOK /\ SpaceAssertion) /\ IsByteQueue
===============================================================================

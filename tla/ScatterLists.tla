---------------------------- MODULE ScatterLists ----------------------------
(***************************************************************************)
(* Scatterlists over user pages: how zc.c cuts a user buffer into pieces   *)
(* of pages, and how util.c copies and advances such a list.  An address   *)
(* is a number, an entry of a list is a piece of one page, and NULL is 0.  *)
(***************************************************************************)
EXTENDS Integers, Sequences, Functions

CONSTANT PageSize

ASSUME PageSizePositive == PageSize \in Nat \ {0}

NULL == 0
MinOf(a, b) == IF a < b THEN a ELSE b
MaxOf(a, b) == IF a < b THEN b ELSE a

PageOf(addr) == addr \div PageSize
PageOffset(addr) == addr % PageSize

\* PAGECOUNT of zc.h
PageCount(addr, len) ==
    IF len = 0 THEN 0 ELSE PageOf(addr + len - 1) - PageOf(addr) + 1

Entry(page, offset, length) == [page |-> page, offset |-> offset, length |-> length]

\* The list __get_userbuf builds on pgcount pages that begin with addr's: the
\* first piece starts at addr's offset, the others at the start of a page.
UserList(addr, len, pgcount) ==
    LET first == MinOf(PageSize - PageOffset(addr), len)
        left[k \in 1 .. pgcount] ==   \* what the k-th piece and the later ones hold
            IF k = 1 THEN len
            ELSE IF k = 2 THEN len - first
            ELSE left[k - 1] - MinOf(PageSize, left[k - 1])
    IN  [k \in 1 .. pgcount |->
            IF k = 1 THEN Entry(PageOf(addr), PageOffset(addr), first)
            ELSE Entry(PageOf(addr) + k - 1, 0, MinOf(PageSize, left[k]))]

\* What is left of n bytes when the entries before the k-th have been passed.
LeftAt(sg, n) ==
    LET left[k \in DOMAIN sg] == IF k = 1 THEN n ELSE left[k - 1] - sg[k - 1].length
    IN  left

\* sg_copy: the entries that cover the first n bytes of a list.
sg_copy(sg, n) ==
    LET left == LeftAt(sg, n)
        last == CHOOSE k \in DOMAIN sg :
                    left[k] <= sg[k].length /\ \A j \in 1 .. k - 1 : left[j] > sg[j].length
    IN  [k \in 1 .. last |-> IF k = last THEN [sg[k] EXCEPT !.length = left[k]] ELSE sg[k]]

\* sg_advance: the list from its n-th byte on; the empty list for NULL.
sg_advance(sg, n) ==
    LET left == LeftAt(sg, n)
        stops == {k \in DOMAIN sg : left[k] < sg[k].length /\ \A j \in 1 .. k - 1 : left[j] >= sg[j].length}
    IN  IF stops = {} THEN <<>>
        ELSE LET k == CHOOSE k \in stops : TRUE
             IN  <<Entry(sg[k].page, sg[k].offset + left[k], sg[k].length - left[k])>>
                     \o SubSeq(sg, k + 1, Len(sg))

\* The addresses of the bytes of a list, in order.
Bytes(sg) ==
    LET upto[k \in 0 .. Len(sg)] ==
            IF k = 0 THEN <<>>
            ELSE upto[k - 1] \o [i \in 1 .. sg[k].length |->
                                    sg[k].page * PageSize + sg[k].offset + i - 1]
    IN  upto[Len(sg)]

\* The bytes of a user buffer, in order.
Buffer(addr, len) == [i \in 1 .. len |-> addr + i - 1]

\* A list begins with the bytes of a user buffer.
BeginsWith(sg, addr, len) ==
    LET bytes == Bytes(sg)
    IN  len <= Len(bytes) /\ SubSeq(bytes, 1, len) = Buffer(addr, len)
=============================================================================

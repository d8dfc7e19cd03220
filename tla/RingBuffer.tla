----------------------------- MODULE RingBuffer -----------------------------
(***************************************************************************)
(* The ring buffer of a TCP session (misc/hev-ring-buffer.c).  Bytes pass  *)
(* through three states: readable (rda_size of them, from rp on), read but *)
(* not released (the use_size - rda_size before them), and free.           *)
(*                                                                         *)
(* An iovec is the position of its first cell and its length.              *)
(***************************************************************************)
EXTENDS Integers, Sequences

Alloca(size) ==
    [rp |-> 0, wp |-> 0, rda_size |-> 0, use_size |-> 0, max_size |-> size,
     data |-> [c \in 0 .. size - 1 |-> 0]]

\* The n cells from position p on, in one piece or in two.
Pieces(b, p, n) ==
    CASE n = 0               -> <<>>
      [] n \in 1 .. b.max_size - p -> <<[base |-> p, len |-> n]>>
      [] OTHER               -> <<[base |-> p, len |-> b.max_size - p],
                                  [base |-> 0, len |-> n - (b.max_size - p)]>>

Reading(b) == Pieces(b, b.rp, b.rda_size)
WritingOverRead(b) == Pieces(b, b.wp, b.max_size - b.rda_size)
Writing(b) == Pieces(b, b.wp, b.max_size - b.use_size)

\* The cells of an iovec, and of a sequence of them, in order.
Cells(iov) == [i \in 1 .. iov.len |-> iov.base + i - 1]
AllCells(iovs) ==
    CASE iovs = <<>>     -> <<>>
      [] Len(iovs) = 1   -> Cells(iovs[1])
      [] OTHER           -> Cells(iovs[1]) \o Cells(iovs[2])

ReadFinishFrees(b, n) ==
    [b EXCEPT !.rp = (@ + n) % b.max_size, !.rda_size = @ - n, !.use_size = @ - n]
ReadFinish(b, n) ==
    [b EXCEPT !.rp = (@ + n) % b.max_size, !.rda_size = @ - n]

ReadRelease(b, n) ==
    IF b.use_size = n
    THEN [b EXCEPT !.use_size = 0, !.rp = 0, !.wp = 0]
    ELSE [b EXCEPT !.use_size = @ - n]

WriteFinish(b, n) ==
    [b EXCEPT !.wp = (@ + n) % b.max_size, !.use_size = @ + n, !.rda_size = @ + n]

\* readv fills the free cells with bytes.
Filled(b, bytes) ==
    LET free == AllCells(Writing(b)) IN
    [b EXCEPT !.data =
        [c \in DOMAIN @ |->
            IF \E i \in DOMAIN bytes : free[i] = c
            THEN bytes[CHOOSE i \in DOMAIN bytes : free[i] = c]
            ELSE @[c]]]
=============================================================================

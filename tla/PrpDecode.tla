----------------------------- MODULE PrpDecode -----------------------------
(***************************************************************************)
(* services/queues/decode.py: which bytes of which pages "PRP" shows.      *)
(* A buffer starts at an offset in its first page; the driver (external)   *)
(* puts its second page in PRP2, or, if there are more, the address of a   *)
(* list of them.  Byte b of the buffer is shown as the number b.           *)
(***************************************************************************)
EXTENDS Integers, Sequences, FiniteSetsExt

CONSTANTS PAGE_SIZE, MAX_PAGE_DUMP, PRPS_PER_PAGE,
          ListEntries      \* the 8 list entries that are looked up at most

\* The entries that are looked up are enough for the bytes that are shown.
ASSUME PrpAssumption ==
    /\ PAGE_SIZE \in Nat \ {0} /\ MAX_PAGE_DUMP \in Nat \ {0}
    /\ ListEntries \in Nat /\ MAX_PAGE_DUMP <= ListEntries * PAGE_SIZE
    /\ PRPS_PER_PAGE \in Nat /\ MAX_PAGE_DUMP <= (PRPS_PER_PAGE - 1) * PAGE_SIZE

ListPage == -1

\* A transfer: offset of PRP1 in its page, length as resolved, whether PRP1 is
\* 0, and the pages (0 is the first, ListPage the list) whose read faults.
Transfers(maxLen) ==
    [offset : 0 .. PAGE_SIZE - 1, total_len : 0 .. maxLen, null : BOOLEAN,
     faults : SUBSET (ListPage .. ListEntries)]

PageCount(x) == (x.offset + x.total_len + PAGE_SIZE - 1) \div PAGE_SIZE
Prp2(x) == IF PageCount(x) > 2 THEN ListPage ELSE 1

\* What memory holds at byte o of a page: a number of the buffer, or a list entry.
Byte(x, page, o) ==
    IF page = ListPage THEN -1 - o ELSE page * PAGE_SIZE + o - x.offset

\* _read_page: a read that faults leaves an empty payload.
ReadPage(x, page, offset, nbytes, isList) ==
    [page |-> page, is_list_page |-> isList,
     data |-> IF page \in x.faults THEN <<>>
              ELSE [b \in 1 .. Max({0, Min({nbytes, PAGE_SIZE})}) |-> Byte(x, page, offset + b - 1)]]

\* Mutant: the pages left are counted by floor division.
MutMorePages(remaining) == remaining \div PAGE_SIZE

MorePages(remaining) == (remaining + PAGE_SIZE - 1) \div PAGE_SIZE

\* The data pages of a PRP list, cut at MAX_PAGE_DUMP bytes in all: the loop ends at
\* the first entry of which nothing is wanted; a list that cannot be read has none.
ListedPages(x, shown, remaining) ==
    LET show == IF ListPage \in x.faults THEN 0
                ELSE Min({MorePages(remaining), PRPS_PER_PAGE - 1, ListEntries})
        wanted(k) == Min({PAGE_SIZE, remaining - (k - 1) * PAGE_SIZE,
                          MAX_PAGE_DUMP - shown - (k - 1) * PAGE_SIZE})
        used == {k \in 1 .. show : \A i \in 1 .. k : wanted(i) > 0}
    IN [k \in 1 .. Max({0} \cup used) |-> ReadPage(x, k, 0, wanted(k), FALSE)]

\* _decode_prp_pages.
DecodePrpPages(x) ==
    LET firstPage == Min({x.total_len, PAGE_SIZE - x.offset})
        shown == Min({firstPage, MAX_PAGE_DUMP})
        remaining == x.total_len - firstPage
        first == <<ReadPage(x, 0, x.offset, shown, FALSE)>>
        second == ReadPage(x, Prp2(x), 0, Min({remaining, MAX_PAGE_DUMP - shown}), FALSE)
        list == ReadPage(x, Prp2(x), 0, Min({remaining, PAGE_SIZE}), TRUE)
    IN IF x.null \/ x.total_len <= 0 THEN <<>>
       ELSE IF remaining <= 0 \/ shown >= MAX_PAGE_DUMP THEN first
       ELSE IF MorePages(remaining) = 1 THEN Append(first, second)
       ELSE first \o <<list>> \o ListedPages(x, shown, remaining)

\* What is shown is the beginning of the buffer: its first MAX_PAGE_DUMP bytes, each
\* once and in order, whatever the offset and however many pages it spans; if a page
\* cannot be read its bytes are missing, and no byte is shown that is not of this
\* buffer or comes before one shown earlier (_decode_prp_pages).
ShowsPrefix(x) ==
    LET pages == DecodePrpPages(x)
        most == IF x.null THEN 0 ELSE Min({x.total_len, MAX_PAGE_DUMP})
        data == {k \in DOMAIN pages : ~pages[k].is_list_page}
        bytes(k) == DOMAIN pages[k].data
    IN /\ \A k \in data : \A i \in bytes(k) : pages[k].data[i] \in 0 .. most - 1
       /\ \A j, k \in data : \A h \in bytes(j), i \in bytes(k) :
             j < k \/ (j = k /\ h < i) => pages[j].data[h] < pages[k].data[i]
       /\ x.faults = {} =>
             \A b \in 0 .. most - 1 : \E k \in data : \E i \in bytes(k) : pages[k].data[i] = b
=============================================================================

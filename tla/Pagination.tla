----------------------------- MODULE Pagination -----------------------------
(***************************************************************************)
(* The page a client asks for and the rows it stands for.                  *)
(***************************************************************************)
EXTENDS Integers

CONSTANT IntSize   \* how many values i64 and usize have: 2^64

ASSUME IntSizeAssumption == IntSize \in Nat \ {0}

MaxPerPage == 100

\* PaginationQuery::page, which counts from 1
PageOf(asked) == IF asked < 1 THEN 1 ELSE asked

\* PaginationQuery::per_page
PerPage(asked) == IF asked < 1 THEN 1 ELSE IF asked > MaxPerPage THEN MaxPerPage ELSE asked

Limit(perPage) == PerPage(perPage)

\* Variant: pages counted from 0.
OffsetFromZero(page, perPage) == (PageOf(page) * PerPage(perPage)) % IntSize

\* A product of i64 that wraps, read as a usize.
Offset(page, perPage) == ((PageOf(page) - 1) * PerPage(perPage)) % IntSize

\* Stream::skip and take: the positions, counted from 0, of the rows on a page.
Positions(page, perPage) == Offset(page, perPage)..Offset(page, perPage) + Limit(perPage) - 1
=============================================================================

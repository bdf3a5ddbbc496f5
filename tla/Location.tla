------------------------------ MODULE Location ------------------------------
(***************************************************************************)
(* The Location of crates/store/src/core.rs: three fields packed into one  *)
(* word.  The code has Half = 2^16 and Pages = 2^32.  A shift by 16 is a   *)
(* multiplication or division by Half; `|` is addition, since the fields   *)
(* occupy disjoint bits; a narrowing cast keeps the remainder.             *)
(***************************************************************************)
EXTENDS Integers

CONSTANTS
    Half,    \* number of values of a u16
    Pages    \* number of values of a u32

Offsets == 0 .. Half - 1
PageIds == 0 .. Pages - 1
RawWords == 0 .. Pages * (Half * Half) - 1

new(page, offset, size) == page * (Half * Half) + offset * Half + size

page_id(raw) == (raw \div (Half * Half)) % Pages
page_offset(raw) == (raw \div Half) % Half
object_size(raw) == raw % Half
=============================================================================

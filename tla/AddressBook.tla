----------------------------- MODULE AddressBook -----------------------------
(***************************************************************************)
(* The addresses a node has heard of: those it may dial, and those it could *)
(* not reach, which it never tries again.  The set of active addresses is   *)
(* kept by the code and never read, so it has no counterpart here.          *)
(***************************************************************************)
EXTENDS Naturals, FiniteSets, Sequences, SequencesExt

CONSTANTS
    MaxAddresses,   \* MAX_AVAILABLE_ADDRESSES
    Usable          \* IPv4 addresses of full nodes that serve witnesses

EmptyBook == [discovered |-> {}, failed |-> {}]

has_max_addresses(book) == Cardinality(book.discovered) >= MaxAddresses

\* pop takes any of the addresses.
pop(book, a) == [book EXCEPT !.discovered = @ \ {a}]

note_failed_address(book, a) == [book EXCEPT !.failed = @ \cup {a}]

should_add_address(book, from, a) == a # from /\ a \in Usable /\ a \notin book.failed

\* add_many and add_many_v2, which differ in the encoding of the addresses.
add_many(book, from, addresses) ==
    FoldLeft(LAMBDA b, a : IF ~has_max_addresses(b) /\ should_add_address(b, from, a)
                           THEN [b EXCEPT !.discovered = @ \cup {a}] ELSE b,
             book, addresses)
=============================================================================

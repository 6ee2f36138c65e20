---------------------------- MODULE AddressDomain ----------------------------
(***************************************************************************)
(* The pure rules of a customer's address book (address-book.ts,           *)
(* saved-address.ts, address-details.ts).  A book is a function from the   *)
(* ids of its addresses to what they say and whether they are the default. *)
(***************************************************************************)
EXTENDS Integers, FiniteSets, Functions

\* AddressDetails.of wants every required field.
Blank == "blank"
DetailsAccepted(details) == details # Blank

Saved(details, isDefault) == [details |-> details, isDefault |-> isDefault]
NoAddresses == [a \in {} |-> Saved(Blank, FALSE)]

Defaults(book) == {a \in DOMAIN book : book[a].isDefault}

\* AddressBook.rehydrate refuses a book with two defaults.
Readable(book) == Cardinality(Defaults(book)) <= 1

AddressOp(kind, id, details) == [kind |-> kind, id |-> id, details |-> details]

\* require(): an address of another customer is not found either.
BookVerdict(book, op) ==
    IF op.kind # "add" /\ op.id \notin DOMAIN book THEN "ADDRESS_NOT_FOUND" ELSE "OK"

WithAddress(book, id, saved) ==
    [a \in DOMAIN book \cup {id} |-> IF a = id THEN saved ELSE book[a]]

\* The first address becomes the default.
FirstIsDefault(book) == book = NoAddresses

\* SavedAddress.withDetails keeps the default, withDefault the details.
BookAfter(book, op) ==
    IF op.kind = "add" THEN WithAddress(book, op.id, Saved(op.details, FirstIsDefault(book)))
    ELSE IF op.kind = "update"
    THEN WithAddress(book, op.id, Saved(op.details, book[op.id].isDefault))
    ELSE IF op.kind = "remove" THEN Restrict(book, DOMAIN book \ {op.id})
    ELSE [a \in DOMAIN book |-> Saved(book[a].details, a = op.id)]

-----------------------------------------------------------------------------
(* PrismaCustomerRepository.save, row by row.                               *)

\* deleteMany: committed rows that the book in memory does not have.
Strangers(book, memory) == DOMAIN book \ DOMAIN memory

\* MUTANT of Upcoming: the default address is written first.
DefaultFirst(memory, pruned, held) ==
    LET rest == (pruned \cup DOMAIN memory) \ held
        default == rest \cap Defaults(memory)
    IN IF pruned \ held # {} THEN pruned \ held
       ELSE IF default # {} THEN default ELSE rest

\* What comes after the rows in held: rows are deleted before any is written,
\* and the default address is written last.
Upcoming(memory, pruned, held) ==
    LET rest == (pruned \cup DOMAIN memory) \ held
        plain == rest \ Defaults(memory)
    IN IF pruned \ held # {} THEN pruned \ held
       ELSE IF plain # {} THEN plain ELSE rest

\* The commit: deleted rows are gone, rows of the book in memory are as in
\* memory, rows that appeared since stay.
Merged(book, pruned, memory) ==
    [a \in (DOMAIN book \ pruned) \cup DOMAIN memory |->
        IF a \in DOMAIN memory THEN memory[a] ELSE book[a]]

\* MUTANT of IndexRefuses: the partial unique index is missing.
IndexMissing(book, held, row) == FALSE

\* saved_addresses_default_idx when row becomes a default: another one is in
\* the committed book, and the writer has not changed it.
IndexRefuses(book, held, row) == Defaults(book) \ (held \cup {row}) # {}

=============================================================================

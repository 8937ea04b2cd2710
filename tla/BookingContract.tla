--------------------------- MODULE BookingContract ---------------------------
(* The data of the suite: the pydantic models of src/models/booking.py, which  *)
(* every request and response passes, and the payloads that                    *)
(* src/utils/data_factory.py generates.  A text is its stem, the tag (a uuid4  *)
(* fragment or the run id) written into it, and its length; a date is a number *)
(* of days from today.                                                         *)
EXTENDS Integers

CONSTANTS
    Word,        \* the words Faker may draw, and the factory's own
    WordLength,  \* their lengths
    Blank,       \* the words that are whitespace only
    Tag,         \* the tags of this run
    NoTag,       \* a text without one
    None         \* Python's None

ASSUME ContractAssumption == /\ WordLength \in [Word -> Nat]
                             /\ Blank \subseteq Word /\ "filler" \notin Blank
                             /\ {"Zero", "Price"} \subseteq Word \ Blank
                             /\ WordLength["Zero"] = 4 /\ WordLength["Price"] = 5
                             /\ NoTag \notin Tag

(* A str of the suite, and what a field of a JSON body may hold.               *)
Texts == [stem : Word \cup {"filler"}, tag : Tag \cup {NoTag}, length : Nat]
Value == Texts \cup Int \cup BOOLEAN \cup {None}

ASSUME NoneAssumption == None \notin Texts /\ None \notin Int /\ None \notin BOOLEAN

(* What Faker draws: names of a sensible length that are not blank.            *)
Name == {w \in Word \ Blank : WordLength[w] \in 1 .. 91}

Text(word)        == [stem |-> word, tag |-> NoTag, length |-> WordLength[word]]
Filler(n)         == [stem |-> "filler", tag |-> NoTag, length |-> n]
Tagged(t, tag, n) == [stem |-> t.stem, tag |-> tag, length |-> t.length + n]

(* t[:n]; the tag is at the end of a text that is cut.                         *)
Slice(t, n) == IF t.length <= n THEN t ELSE [stem |-> t.stem, tag |-> NoTag, length |-> n]

-----------------------------------------------------------------------------
(* BookingPayload, BookingResponse.  (BookingDates is two fields here.)        *)
Field == {"firstname", "lastname", "totalprice", "depositpaid", "checkin", "checkout",
          "additionalneeds"}

MaxPrice == 1000000

PriceFits(price) == price >= 0 /\ price <= MaxPrice

NoWhitespaceOnly(t) == t.stem \in Blank => t.tag # NoTag

NameFits(t) == t.length \in 1 .. 100

NeedsFit(t) == t # None => t.length <= 500

DatesOK(b) == b.checkout > b.checkin

PayloadOK(p) == /\ \A f \in {"firstname", "lastname"} : NameFits(p[f]) /\ NoWhitespaceOnly(p[f])
                /\ PriceFits(p.totalprice)
                /\ DatesOK(p)
                /\ NeedsFit(p.additionalneeds)

ResponseOK(r) == /\ \A f \in Field \ {"additionalneeds"} : r[f] # None
                 /\ DatesOK(r)

(* PartialBookingPayload of the given fields, None for the others; extra       *)
(* fields are forbidden.  Its name fields have no whitespace check.            *)
PartialOK(given) ==
    /\ DOMAIN given \subseteq Field
    /\ \A f \in DOMAIN given \cap {"firstname", "lastname"} : NameFits(given[f])
    /\ "totalprice" \in DOMAIN given => PriceFits(given.totalprice)
    /\ "checkin" \in DOMAIN given <=> "checkout" \in DOMAIN given
    /\ "checkin" \in DOMAIN given => DatesOK(given)
    /\ "additionalneeds" \in DOMAIN given => NeedsFit(given.additionalneeds)

(* Mutant of Dump: without exclude_none, every field is sent.                  *)
DumpAll(given) == [f \in Field |-> IF f \in DOMAIN given THEN given[f] ELSE None]

(* model_dump(exclude_none=True): what was not given is not sent.              *)
Dump(given) == [f \in {g \in DOMAIN given : given[g] # None} |-> given[f]]

(* A booking b with the fields of a PATCH in place of its own.                 *)
Merge(b, sent) == [f \in Field |-> IF f \in DOMAIN sent THEN sent[f] ELSE b[f]]

-----------------------------------------------------------------------------
(* The factory's variants.  tag is fresh for each payload, run is RUN_ID.      *)
Booking(first, last, price, deposit, offset, stay, needs) ==
    [firstname |-> first, lastname |-> last, totalprice |-> price, depositpaid |-> deposit,
     checkin |-> offset, checkout |-> offset + stay, additionalneeds |-> needs]

Needs(word, run) == IF word = None THEN Tagged(Filler(4), run, 8)
                                   ELSE Tagged(Filler(7 + WordLength[word]), run, 8)

(* Mutant of Realistic: the stay is counted from today.                        *)
RealisticFromToday(first, last, price, deposit, need, offset, stay, tag, run) ==
    [Booking(Text(first), Tagged(Text(last), tag, 9), price, deposit, offset, stay,
             Needs(need, run)) EXCEPT !.checkout = stay]

Realistic(first, last, price, deposit, need, offset, stay, tag, run) ==
    Booking(Text(first), Tagged(Text(last), tag, 9), price, deposit, offset, stay,
            Needs(need, run))

(* Mutant of MaxLength: filled up to the limit before the tag is added.        *)
MaxLengthFilled(tag, run) ==
    Booking(Slice(Tagged(Filler(100), tag, 9), 100), Slice(Tagged(Filler(100), tag, 9), 100),
            MaxPrice, TRUE, 1, 365, Slice(Tagged(Filler(500), run, 13), 500))

MaxLength(tag, run) ==
    Booking(Slice(Tagged(Filler(91), tag, 9), 100), Slice(Tagged(Filler(91), tag, 9), 100),
            MaxPrice, TRUE, 1, 365, Slice(Tagged(Filler(483), run, 13), 500))

MinimumPrice(tag, run) ==
    Booking(Tagged(Text("Zero"), tag, 9), Tagged(Text("Price"), tag, 9), 0, FALSE, 14, 1,
            Tagged(Filler(24), run, 8))

UnicodeNames(first, last, tag, run) ==
    Booking(Text(first), Tagged(Text(last), tag, 9), 500, TRUE, 7, 2,
            Tagged(Filler(17), run, 8))
=============================================================================

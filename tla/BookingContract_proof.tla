------------------------ MODULE BookingContract_proof ------------------------
(* What the data factory and the models guarantee for every input, not only    *)
(* for the few words that are model-checked.                                   *)
EXTENDS BookingContract, TLAPS

(* What a correct server can hold: a payload as it was sent.                   *)
Booked == [firstname : Texts, lastname : Texts, totalprice : Int, depositpaid : BOOLEAN,
           checkin : Int, checkout : Int, additionalneeds : Texts]

(* A booking that can be found by its tag and by its run.                      *)
Labelled(b, tag, run) == b.lastname.tag = tag /\ b.additionalneeds.tag = run

(* A name with a uuid4 fragment after it fits its field and is not blank.      *)
LEMMA TaggedNameFits ==
    ASSUME NEW t \in Texts, t.stem \notin Blank, t.length \in 1 .. 91, NEW tag \in Tag
    PROVE  /\ Tagged(t, tag, 9) \in Texts /\ Tagged(t, tag, 9).tag = tag
           /\ NameFits(Tagged(t, tag, 9)) /\ NoWhitespaceOnly(Tagged(t, tag, 9))
<1>1. t.stem \in Word \cup {"filler"} /\ t.length \in Nat
  BY DEF Texts
<1>2. PICK r : r = Tagged(t, tag, 9)
  OBVIOUS
<1>3. r \in Texts
  BY <1>1, <1>2 DEF Texts, Tagged
<1>4. r.length = t.length + 9 /\ r.stem = t.stem /\ r.tag = tag
  BY <1>2 DEF Tagged
<1>5. NameFits(r) /\ NoWhitespaceOnly(r)
  BY <1>4 DEF NameFits, NoWhitespaceOnly
<1> QED BY <1>2, <1>3, <1>4, <1>5

(* A name as Faker draws it is a text that fits.                               *)
LEMMA NameIsText ==
    ASSUME NEW w \in Name
    PROVE  /\ Text(w) \in Texts /\ Text(w).stem \notin Blank /\ Text(w).length \in 1 .. 91
           /\ NameFits(Text(w)) /\ NoWhitespaceOnly(Text(w))
<1>1. w \in Word /\ w \notin Blank /\ WordLength[w] \in 1 .. 91
  BY DEF Name
<1>2. PICK r : r = Text(w)
  OBVIOUS
<1>3. r \in Texts
  BY <1>1, <1>2 DEF Texts, Text
<1>4. r.length \in 1 .. 91 /\ r.stem \notin Blank
  BY <1>1, <1>2 DEF Text
<1>5. NameFits(r) /\ NoWhitespaceOnly(r)
  BY <1>4 DEF NameFits, NoWhitespaceOnly
<1> QED BY <1>2, <1>3, <1>4, <1>5

(* The additionalneeds of realistic(): the run id, and at most 500 characters. *)
LEMMA NeedsAreTagged ==
    ASSUME NEW need \in {w \in Word : WordLength[w] <= 26} \cup {None}, NEW run \in Tag
    PROVE  Needs(need, run) \in Texts /\ Needs(need, run).tag = run
           /\ Needs(need, run).length <= 500
<1>1. CASE need = None
  BY <1>1 DEF Needs, Tagged, Filler, Texts
<1>2. CASE need # None
  <2>1. WordLength[need] \in Nat /\ WordLength[need] <= 26
    BY <1>2, ContractAssumption
  <2>2. Needs(need, run) = Tagged(Filler(7 + WordLength[need]), run, 8)
    BY <1>2 DEF Needs
  <2>3. PICK n \in Nat : n = 7 + WordLength[need] /\ n + 8 <= 500
    BY <2>1
  <2>4. Needs(need, run) = Tagged(Filler(n), run, 8)
    BY <2>2, <2>3
  <2>5. Needs(need, run).length = n + 8
    BY <2>4 DEF Tagged, Filler
  <2>6. Needs(need, run) \in Texts /\ Needs(need, run).tag = run
    BY <2>4 DEF Tagged, Filler, Texts
  <2> QED BY <2>3, <2>5, <2>6
<1> QED BY <1>1, <1>2

(* A payload of checked parts passes BookingPayload.                           *)
LEMMA BookingIsValid ==
    ASSUME NEW first \in Texts, NEW last \in Texts, NEW price \in Nat, PriceFits(price),
           NEW deposit \in BOOLEAN, NEW offset \in Int, NEW stay \in Nat \ {0},
           NEW needs \in Texts, needs.length <= 500,
           NameFits(first), NoWhitespaceOnly(first), NameFits(last), NoWhitespaceOnly(last),
           NEW b, b = Booking(first, last, price, deposit, offset, stay, needs)
    PROVE  b \in Booked /\ PayloadOK(b) /\ Labelled(b, last.tag, needs.tag)
<1>1. b \in Booked
  BY DEF Booking, Booked
<1>2. /\ b.firstname = first /\ b.lastname = last /\ b.totalprice = price
      /\ b.checkin = offset /\ b.checkout = offset + stay /\ b.additionalneeds = needs
  BY DEF Booking
<1>3. PayloadOK(b)
  <2>1. NeedsFit(b.additionalneeds)
    BY <1>2 DEF NeedsFit
  <2>2. DatesOK(b)
    BY <1>2 DEF DatesOK
  <2> QED BY <1>2, <2>1, <2>2 DEF PayloadOK
<1>4. Labelled(b, last.tag, needs.tag)
  BY DEF Booking, Labelled
<1> QED BY <1>1, <1>3, <1>4

-----------------------------------------------------------------------------
(* realistic(): for any name, price and wish Faker may draw and any stay of at *)
(* least a day, the payload passes BookingPayload and carries its labels.      *)
THEOREM RealisticIsValid ==
    ASSUME NEW first \in Name, NEW last \in Name, NEW price \in Nat, PriceFits(price),
           NEW deposit \in BOOLEAN, NEW need \in {w \in Word : WordLength[w] <= 26} \cup {None},
           NEW offset \in Int, NEW stay \in Nat \ {0}, NEW tag \in Tag, NEW run \in Tag
    PROVE  LET p == Realistic(first, last, price, deposit, need, offset, stay, tag, run)
           IN p \in Booked /\ PayloadOK(p) /\ Labelled(p, tag, run)
<1>1. /\ Tagged(Text(last), tag, 9) \in Texts /\ Tagged(Text(last), tag, 9).tag = tag
      /\ NameFits(Tagged(Text(last), tag, 9)) /\ NoWhitespaceOnly(Tagged(Text(last), tag, 9))
  BY NameIsText, TaggedNameFits
<1>2. Text(first) \in Texts /\ NameFits(Text(first)) /\ NoWhitespaceOnly(Text(first))
  BY NameIsText
<1> QED BY <1>1, <1>2, NeedsAreTagged, BookingIsValid DEF Realistic

(* max_length(): the names fill their 100 characters exactly, and the slice    *)
(* at the limit cuts off neither the uuid4 fragment nor the run id.            *)
THEOREM MaxLengthIsValid ==
    ASSUME NEW tag \in Tag, NEW run \in Tag
    PROVE  LET p == MaxLength(tag, run)
           IN /\ p \in Booked /\ PayloadOK(p) /\ Labelled(p, tag, run)
              /\ p.firstname.length = 100 /\ p.lastname.length = 100
<1>1. /\ Tagged(Filler(91), tag, 9) \in Texts /\ Tagged(Filler(91), tag, 9).length = 100
      /\ Tagged(Filler(91), tag, 9).tag = tag /\ Tagged(Filler(91), tag, 9).stem = "filler"
  BY DEF Tagged, Filler, Texts
<1>2. /\ Tagged(Filler(483), run, 13) \in Texts /\ Tagged(Filler(483), run, 13).length = 496
      /\ Tagged(Filler(483), run, 13).tag = run
  BY DEF Tagged, Filler, Texts
<1>3. /\ Slice(Tagged(Filler(91), tag, 9), 100) = Tagged(Filler(91), tag, 9)
      /\ Slice(Tagged(Filler(483), run, 13), 500) = Tagged(Filler(483), run, 13)
  BY <1>1, <1>2 DEF Slice
<1>4. NameFits(Tagged(Filler(91), tag, 9)) /\ NoWhitespaceOnly(Tagged(Filler(91), tag, 9))
  BY <1>1, ContractAssumption DEF NameFits, NoWhitespaceOnly
<1>5. LET p == MaxLength(tag, run)
      IN p \in Booked /\ PayloadOK(p) /\ Labelled(p, tag, run)
  <2>1. PICK price \in Nat : price = MaxPrice
    BY SMT DEF MaxPrice
  <2>2. PriceFits(price)
    BY <2>1, SMT DEF MaxPrice, PriceFits
  <2>3. PICK offset \in Int, stay \in Nat \ {0} : offset = 1 /\ stay = 365
    OBVIOUS
  <2>4. PICK deposit \in BOOLEAN : deposit = TRUE
    OBVIOUS
  <2>5. PICK p : p = Booking(Tagged(Filler(91), tag, 9), Tagged(Filler(91), tag, 9), price,
                             deposit, offset, stay, Tagged(Filler(483), run, 13))
    OBVIOUS
  <2>6. p \in Booked /\ PayloadOK(p) /\ Labelled(p, tag, run)
    <3>1. Tagged(Filler(483), run, 13).length <= 500 /\ Tagged(Filler(483), run, 13).tag = run
      BY <1>2
    <3>2. Tagged(Filler(91), tag, 9) \in Texts /\ Tagged(Filler(483), run, 13) \in Texts
      BY <1>1, <1>2
    <3> QED BY <1>1, <1>4, <2>2, <2>5, <3>1, <3>2, BookingIsValid
  <2>7. p = MaxLength(tag, run)
    BY <1>3, <2>1, <2>3, <2>4, <2>5 DEF MaxLength
  <2> QED BY <2>6, <2>7
<1>6. /\ MaxLength(tag, run).firstname = Tagged(Filler(91), tag, 9)
      /\ MaxLength(tag, run).lastname = Tagged(Filler(91), tag, 9)
  BY <1>3 DEF MaxLength, Booking
<1> QED BY <1>1, <1>5, <1>6

(* minimum_price() and unicode_names() pass BookingPayload too.                *)
THEOREM VariantsAreValid ==
    ASSUME NEW first \in Name, NEW last \in Name, NEW tag \in Tag, NEW run \in Tag
    PROVE  /\ LET p == MinimumPrice(tag, run)
              IN p \in Booked /\ PayloadOK(p) /\ Labelled(p, tag, run)
           /\ LET p == UnicodeNames(first, last, tag, run)
              IN p \in Booked /\ PayloadOK(p) /\ Labelled(p, tag, run)
<1>1. "Zero" \in Name /\ "Price" \in Name
  BY ContractAssumption DEF Name
<1>2. \A w \in Name : /\ Tagged(Text(w), tag, 9) \in Texts /\ Tagged(Text(w), tag, 9).tag = tag
                      /\ NameFits(Tagged(Text(w), tag, 9))
                      /\ NoWhitespaceOnly(Tagged(Text(w), tag, 9))
  BY NameIsText, TaggedNameFits
<1>3. /\ Tagged(Filler(24), run, 8) \in Texts /\ Tagged(Filler(24), run, 8).tag = run
      /\ Tagged(Filler(24), run, 8).length <= 500
      /\ Tagged(Filler(17), run, 8) \in Texts /\ Tagged(Filler(17), run, 8).tag = run
      /\ Tagged(Filler(17), run, 8).length <= 500
  BY DEF Tagged, Filler, Texts
<1>4. Text(first) \in Texts /\ NameFits(Text(first)) /\ NoWhitespaceOnly(Text(first))
  BY NameIsText
<1>5. LET p == MinimumPrice(tag, run)
      IN p \in Booked /\ PayloadOK(p) /\ Labelled(p, tag, run)
  <2>1. PICK price \in Nat : price = 0
    BY SMT DEF MaxPrice
  <2>2. PriceFits(price)
    BY <2>1, SMT DEF MaxPrice, PriceFits
  <2>3. PICK offset \in Int, stay \in Nat \ {0} : offset = 14 /\ stay = 1
    OBVIOUS
  <2>4. PICK deposit \in BOOLEAN : deposit = FALSE
    OBVIOUS
  <2>5. PICK p : p = Booking(Tagged(Text("Zero"), tag, 9), Tagged(Text("Price"), tag, 9), price,
                             deposit, offset, stay, Tagged(Filler(24), run, 8))
    OBVIOUS
  <2>6. p \in Booked /\ PayloadOK(p) /\ Labelled(p, tag, run)
    BY <1>1, <1>2, <1>3, <2>2, <2>5, BookingIsValid
  <2>7. p = MinimumPrice(tag, run)
    BY <2>1, <2>3, <2>4, <2>5 DEF MinimumPrice
  <2> QED BY <2>6, <2>7
<1>6. LET p == UnicodeNames(first, last, tag, run)
      IN p \in Booked /\ PayloadOK(p) /\ Labelled(p, tag, run)
  <2>1. PICK price \in Nat : price = 500
    BY SMT DEF MaxPrice
  <2>2. PriceFits(price)
    BY <2>1, SMT DEF MaxPrice, PriceFits
  <2>3. PICK offset \in Int, stay \in Nat \ {0} : offset = 7 /\ stay = 2
    OBVIOUS
  <2>4. PICK deposit \in BOOLEAN : deposit = TRUE
    OBVIOUS
  <2>5. PICK p : p = Booking(Text(first), Tagged(Text(last), tag, 9), price,
                             deposit, offset, stay, Tagged(Filler(17), run, 8))
    OBVIOUS
  <2>6. p \in Booked /\ PayloadOK(p) /\ Labelled(p, tag, run)
    BY <1>2, <1>3, <1>4, <2>2, <2>5, BookingIsValid
  <2>7. p = UnicodeNames(first, last, tag, run)
    BY <2>1, <2>3, <2>4, <2>5 DEF UnicodeNames
  <2> QED BY <2>6, <2>7
<1> QED BY <1>5, <1>6

(* PATCH: whatever fields a PartialBookingPayload gives, what a server makes   *)
(* of a complete booking still parses as a BookingResponse, because            *)
(* exclude_none keeps the fields not given out of the request and a            *)
(* BookingDates gives both dates or neither.                                   *)
THEOREM PatchKeepsResponse ==
    ASSUME NEW b, \A f \in Field : b[f] # None, DatesOK(b),
           NEW given, PartialOK(given), DOMAIN given \subseteq Field,
           \A f \in DOMAIN given \cap {"checkin", "checkout"} : given[f] # None
    PROVE  ResponseOK(Merge(b, Dump(given)))
<1> DEFINE sent == Dump(given)
<1>1. DOMAIN sent = {g \in DOMAIN given : given[g] # None}
      /\ \A f \in DOMAIN sent : sent[f] = given[f] /\ sent[f] # None
  BY DEF Dump
<1> HIDE DEF sent
<1>2. PICK m : m = Merge(b, sent)
  OBVIOUS
<1>3. \A f \in Field : m[f] = IF f \in DOMAIN sent THEN sent[f] ELSE b[f]
  BY <1>2 DEF Merge
<1>4. \A f \in Field : m[f] # None
  BY <1>1, <1>3
<1>5. "checkin" \in DOMAIN sent <=> "checkout" \in DOMAIN sent
  BY <1>1 DEF PartialOK
<1>6. "checkin" \in Field /\ "checkout" \in Field
  BY DEF Field
<1>7. m["checkout"] > m["checkin"]
  <2>1. CASE "checkin" \in DOMAIN sent
    <3>1. m["checkin"] = given["checkin"] /\ m["checkout"] = given["checkout"]
      BY <2>1, <1>1, <1>3, <1>5, <1>6
    <3>2. given["checkout"] > given["checkin"]
      BY <2>1, <1>1 DEF PartialOK, DatesOK
    <3> QED BY <3>1, <3>2
  <2>2. CASE "checkin" \notin DOMAIN sent
    <3>1. m["checkin"] = b["checkin"] /\ m["checkout"] = b["checkout"]
      BY <2>2, <1>3, <1>5, <1>6
    <3>2. b["checkout"] > b["checkin"]
      BY DEF DatesOK
    <3> QED BY <3>1, <3>2
  <2> QED BY <2>1, <2>2
<1>8. DatesOK(m)
  BY <1>7 DEF DatesOK
<1>9. ResponseOK(m)
  BY <1>4, <1>8 DEF ResponseOK
<1> QED BY <1>2, <1>9 DEF sent
=============================================================================

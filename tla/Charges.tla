-------------------------------- MODULE Charges --------------------------------
(***************************************************************************)
(* What one usage record charges (internal/policy: billing.go, price.go,   *)
(* bucket.go, money.go): the token counts are sanitized, split by the      *)
(* provider's way of reporting them, priced by the row of the model and    *)
(* added to a bucket.                                                      *)
(*                                                                         *)
(* Prices are in hundredths of a dollar per million tokens, multipliers in *)
(* hundredths, and charges in nanodollars; their arithmetic is exact.  A   *)
(* name is what is left of it after trimming and lowercasing.              *)
(***************************************************************************)
EXTENDS Integers

CONSTANTS
  MaxTokens,     \* maxTokensPerRecord
  MaxPrice,      \* maxPricePerMillion; maxPerCallUSD is the same
  MaxMultiplier, \* maxBillingMultiplier
  Counts,        \* bound: the token counts CPA reports
  NoPrice,       \* a row without a cache write price
  AnyProvider    \* a row without a provider

ASSUME ChargesAssumption ==
  /\ MaxTokens \in Nat /\ MaxPrice \in Nat /\ Counts \subseteq Int
  /\ MaxMultiplier \in Nat /\ MaxMultiplier >= 100
  /\ NoPrice \notin Int

VARIABLE priceRow \* the row records are billed by, NoPrice while there are none

Least(a, b) == IF a < b THEN a ELSE b

----------------------------------------------------------------------------
\* Token counts

\* UsageDetail, without its count of cached tokens, which nothing reads.
Billed == {"input", "output", "reasoning", "cacheRead", "cacheCreation"}
Fields == Billed \cup {"total"}
Reported == [Fields -> Counts]
Detail == [Fields -> 0..MaxTokens]

(* sanitizeDetail: negative counts become zero; too large a one makes the
   record invalid, unless it is not billed. *)
Invalid(detail) == \E f \in Billed : detail[f] > MaxTokens
Sanitized(detail) ==
  [f \in Fields |-> IF detail[f] < 0 \/ (f \notin Billed /\ detail[f] > MaxTokens) THEN 0 ELSE detail[f]]

\* What the provider and the executor are known as.
Families == {"compatible", "claude", "gemini", "other"}
Semantics == {"subset", "independent", "separateReasoning"}

\* tokenSemanticsFor: compatible providers first, whatever they front.
TokenSemantics(provider, executor) ==
  LET names == {provider, executor}
  IN  CASE "compatible" \in names -> "subset"
        [] "compatible" \notin names /\ "claude" \in names -> "independent"
        [] names \cap {"compatible", "claude"} = {} /\ "gemini" \in names -> "separateReasoning"
        [] OTHER -> "subset"

\* The total shows that reasoning is not in the output.
ReasoningApart(semantics, d) ==
  \/ semantics = "separateReasoning"
  \/ /\ semantics = "subset" /\ d["reasoning"] > 0
     /\ d["total"] - d["input"] - d["output"] = d["reasoning"]

(* splitTokens.  Cache reads, and writes that have a price, are outside the
   input of an independent provider and inside the others'. *)
CacheRead(semantics, d) ==
  IF semantics = "independent" THEN d["cacheRead"] ELSE Least(d["cacheRead"], d["input"])
CacheWrite(semantics, d, apart) ==
  IF ~apart THEN 0
  ELSE IF semantics = "independent" THEN d["cacheCreation"]
  ELSE Least(d["cacheCreation"], d["input"] - CacheRead(semantics, d))
FreshInput_Added(semantics, d, apart) ==
  IF semantics = "independent" THEN d["input"] + d["cacheCreation"]
  ELSE d["input"] - CacheRead(semantics, d) - CacheWrite(semantics, d, apart)
FreshInput(semantics, d, apart) ==
  IF semantics = "independent" THEN d["input"] + (IF apart THEN 0 ELSE d["cacheCreation"])
  ELSE d["input"] - CacheRead(semantics, d) - CacheWrite(semantics, d, apart)
Output(semantics, d) == d["output"] + (IF ReasoningApart(semantics, d) THEN d["reasoning"] ELSE 0)

\* ShapeTokens: what the channel statistics count, whatever the price.
Shape(provider, executor, detail) ==
  LET d == Sanitized(detail)
      semantics == TokenSemantics(provider, executor)
  IN  IF Invalid(detail) THEN [prompt |-> 0, cached |-> 0, generated |-> 0, reasoning |-> 0]
      ELSE [prompt |-> FreshInput(semantics, d, TRUE) + CacheRead(semantics, d) + CacheWrite(semantics, d, TRUE),
            cached |-> CacheRead(semantics, d), generated |-> Output(semantics, d), reasoning |-> d["reasoning"]]

----------------------------------------------------------------------------
\* Price rows

Price == 0..MaxPrice
Row == [mode : {"tokens", "per_call"}, multiplier : 100..MaxMultiplier,
        input : Price, output : Price, read : Price, write : Price \cup {NoPrice}, call : Price]

\* A model without a row is counted and charges nothing.
NoRow == [mode |-> "tokens", multiplier |-> 100, input |-> 0, output |-> 0, read |-> 0, write |-> NoPrice, call |-> 0]

(* normalizeModelPrices of a row an operator writes or the state file holds:
   no mode means tokens, no multiplier one. *)
Normalized(row) ==
  [row EXCEPT !.mode = IF @ = "" THEN "tokens" ELSE @, !.multiplier = IF @ = 0 THEN 100 ELSE @]
Accepted(row) == Normalized(row) \in Row

\* Upserts and imports of rows, which replace the one of the same name, and
\* deletions.
Drafts ==
  [mode : {"", "tokens", "per_call"}, multiplier : {0} \cup 99..(MaxMultiplier + 1), input : 0..(MaxPrice + 1),
   output : Price, read : Price, write : Price \cup {NoPrice}, call : Price]
SetsRow == \E row \in Drafts : Accepted(row) /\ priceRow' = Normalized(row)
DropsRow == priceRow' = NoRow

ChargesInit == priceRow = NoPrice
ChargesSpec == ChargesInit /\ [][SetsRow \/ DropsRow]_priceRow

\* Tables: rows by name and provider, each of which one row may have.
\* lookup prefers the provider's own row.
Lookup(table, provider, name) ==
  CASE <<name, provider>> \in DOMAIN table -> table[<<name, provider>>]
    [] <<name, provider>> \notin DOMAIN table /\ <<name, AnyProvider>> \in DOMAIN table -> table[<<name, AnyProvider>>]
    [] OTHER -> NoRow

Priced(row) ==
  IF row.mode = "per_call" THEN row.call > 0
  ELSE row.input > 0 \/ row.output > 0 \/ row.read > 0 \/ (row.write # NoPrice /\ row.write > 0)

ReadPrice(row) == IF row.read = 0 THEN row.input ELSE row.read
WritePrice(row) == IF row.write = NoPrice THEN row.input ELSE row.write

----------------------------------------------------------------------------
\* Buckets

Bucket == [calls : Nat, unpriced : Nat, input : Nat, cacheRead : Nat, cacheWrite : Nat, output : Nat,
           charged : Nat, readCost : Nat, writeCost : Nat]
NoBucket == [calls |-> 0, unpriced |-> 0, input |-> 0, cacheRead |-> 0, cacheWrite |-> 0, output |-> 0,
             charged |-> 0, readCost |-> 0, writeCost |-> 0]

\* Bucket.add.
Plus(b, c) == [f \in DOMAIN NoBucket |-> b[f] + c[f]]

\* tokenCharge: tokens times price times multiplier, to the nearest nanodollar.
Charged(tokens, price, multiplier) == (tokens * price * multiplier + 5) \div 10

\* USDToNano of a hundredth of a dollar.
PerCall(row) == row.call * 10000000

BillTokens_RoundedOnce(row, semantics, d, multiplier) ==
  LET apart == row.write # NoPrice
      cost == FreshInput(semantics, d, apart) * row.input + CacheRead(semantics, d) * ReadPrice(row)
              + CacheWrite(semantics, d, apart) * WritePrice(row) + Output(semantics, d) * row.output
  IN  [calls |-> 1, unpriced |-> 0,
       input |-> FreshInput(semantics, d, apart), cacheRead |-> CacheRead(semantics, d),
       cacheWrite |-> CacheWrite(semantics, d, apart), output |-> Output(semantics, d),
       charged |-> Charged(1, cost, multiplier),
       readCost |-> Charged(CacheRead(semantics, d), ReadPrice(row), multiplier),
       writeCost |-> Charged(CacheWrite(semantics, d, apart), WritePrice(row), multiplier)]

(* billTokens: each class is rounded on its own and the charge is their sum;
   multiplier is the row's, or none for the list price. *)
BillTokens(row, semantics, d, multiplier) ==
  LET apart == row.write # NoPrice
      readCost == Charged(CacheRead(semantics, d), ReadPrice(row), multiplier)
      writeCost == Charged(CacheWrite(semantics, d, apart), WritePrice(row), multiplier)
  IN  [calls |-> 1, unpriced |-> 0,
       input |-> FreshInput(semantics, d, apart), cacheRead |-> CacheRead(semantics, d),
       cacheWrite |-> CacheWrite(semantics, d, apart), output |-> Output(semantics, d),
       charged |-> Charged(FreshInput(semantics, d, apart), row.input, multiplier) + readCost + writeCost
                   + Charged(Output(semantics, d), row.output, multiplier),
       readCost |-> readCost, writeCost |-> writeCost]

NoTokens(bucket) == bucket.input = 0 /\ bucket.cacheRead = 0 /\ bucket.cacheWrite = 0 /\ bucket.output = 0

----------------------------------------------------------------------------
\* Records

(* RecordUsage once the key is found: what becomes of the record and the
   bucket it adds.  awaited: its trace is that of a media generation. *)
Recorded(row, semantics, detail, awaited) ==
  LET bucket == IF row.mode = "per_call" THEN [NoBucket EXCEPT !.calls = 1, !.charged = PerCall(row)]
                ELSE BillTokens(row, semantics, Sanitized(detail), row.multiplier)
      nothing(result) == [result |-> result, bucket |-> NoBucket]
  IN  CASE Invalid(detail) -> nothing("invalid_usage")
        [] ~Invalid(detail) /\ row.mode = "per_call" /\ ~awaited -> nothing("unmetered_per_call")
        [] ~Invalid(detail) /\ row.mode = "tokens" /\ Priced(row) /\ NoTokens(bucket) -> nothing("ignored_empty_usage")
        [] OTHER -> [result |-> "recorded", bucket |-> [bucket EXCEPT !.unpriced = IF Priced(row) THEN 0 ELSE 1]]

\* ListCost: what the channel statistics estimate the upstream charged.
ListCost(row, semantics, detail, awaited) ==
  IF Invalid(detail) \/ ~Priced(row) \/ (row.mode = "per_call" /\ ~awaited) THEN 0
  ELSE IF row.mode = "per_call" THEN PerCall(row)
  ELSE BillTokens(row, semantics, Sanitized(detail), 100).charged

----------------------------------------------------------------------------
\* Properties

Prompt(semantics, d) ==
  IF semantics = "independent" THEN d["input"] + d["cacheCreation"] + d["cacheRead"] ELSE d["input"]

(* The token classes of a record are disjoint and complete, whatever its
   provider reports where and with or without a cache write price. *)
TokensCountOnce ==
  \A semantics \in Semantics, d \in Detail, apart \in BOOLEAN :
    /\ FreshInput(semantics, d, apart) \in Nat
    /\ CacheRead(semantics, d) \in Nat /\ CacheWrite(semantics, d, apart) \in Nat
    /\ FreshInput(semantics, d, apart) + CacheRead(semantics, d) + CacheWrite(semantics, d, apart) = Prompt(semantics, d)
    /\ Output(semantics, d) \in d["output"]..(d["output"] + d["reasoning"])

(* A token is counted in one class (billing.go:230), so that nothing is
   charged twice.  Whatever counts CPA reports, the cache amounts shown apart
   never exceed the charge they are part of (billing.go:296), although each
   class is rounded on its own; the list cost the channel statistics add up
   never exceeds what the key pays, nothing for a record that is not billed
   included; and a row that prices nothing, or none, charges nothing. *)
ChargesAddUp ==
  priceRow # NoPrice =>
    /\ TokensCountOnce
    /\ \A semantics \in Semantics, detail \in Reported, awaited \in BOOLEAN :
         LET bucket == Recorded(priceRow, semantics, detail, awaited).bucket
         IN  /\ bucket \in Bucket
             /\ bucket.readCost + bucket.writeCost <= bucket.charged
             /\ ListCost(priceRow, semantics, detail, awaited) <= bucket.charged
             /\ ~Priced(priceRow) => bucket.charged = 0
===============================================================================

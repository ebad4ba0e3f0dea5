--------------------------- MODULE CatalogueQuery ---------------------------
(***************************************************************************)
(* What a shopper's words mean and which products match them                *)
(* (catalog/query.py, catalog/search.py, repositories/products.py).         *)
(*                                                                           *)
(* A query is a sequence of items, the result of _segment: a kind of the     *)
(* vocabulary, "num" or "word", and the canonical value or the token.        *)
(***************************************************************************)
EXTENDS Sorting, Sequences

CONSTANTS
    MaxPrice,       \* MAX_PRICE
    Amounts,        \* a "num" token -> the number it stands for, k counted as thousands
    Normal,         \* a raw word of a product's text -> its normalised token
    AsciiTokens     \* the tokens for which token.isascii()

ASSUME QueryAssumption ==
    /\ MaxPrice \in Nat
    /\ \A token \in DOMAIN Amounts : Amounts[token] \in Nat

BeforeNumber == {"max_before", "min_before"}
AfterNumber == {"max_after", "min_after"}
PriceOperators == BeforeNumber \cup AfterNumber

Kind(items, i) == IF i \in DOMAIN items THEN items[i].kind ELSE "none"
Places(items, kinds) == {i \in DOMAIN items : items[i].kind \in kinds}

Spoken(items) ==
    LET at == Sorted({i \in DOMAIN items : items[i].kind \notin {"stop", "currency_words"}}, <)
    IN [n \in DOMAIN at |-> items[at[n]]]

-----------------------------------------------------------------------------
(* parse_query: the numbers, from left to right.                            *)

InRange(token) == Amounts[token] <= MaxPrice

IsRange(items, i) ==
    /\ Kind(items, i - 1) = "between_start"
    /\ Kind(items, i + 1) = "between_joiner"
    /\ Kind(items, i + 2) = "num"

\* The operator of a number: the one before it, else the one after it, else none.
Operator(items, i) ==
    IF Kind(items, i - 1) \in BeforeNumber THEN i - 1
    ELSE IF Kind(items, i + 1) \in AfterNumber THEN i + 1
    ELSE 0

\* A bound keeps the place of the number it comes from.
Bound(side, price, i) == [side |-> side, price |-> price, at |-> i]

ReadRange(items, read, i) ==
    LET low == items[i].value   high == items[i + 2].value
        prices == {Amounts[low], Amounts[high]}
        known == InRange(low) /\ InRange(high)
    IN [read EXCEPT
          !.used = @ \cup {i - 1, i + 1, i + 2},
          !.unsupported = IF known THEN @ ELSE @ \cup {"price out of range"},
          !.bounds = IF known
                     THEN @ \cup {Bound("min", CHOOSE a \in prices : \A b \in prices : a <= b, i),
                                  Bound("max", CHOOSE a \in prices : \A b \in prices : a >= b, i + 2)}
                     ELSE @]

ReadBound(items, read, i) ==
    LET op == Operator(items, i)
        side == IF Kind(items, op) \in {"max_before", "max_after"} THEN "max" ELSE "min"
    IN [read EXCEPT
          !.used = @ \cup {op},
          !.unsupported = IF InRange(items[i].value) THEN @ ELSE @ \cup {"price out of range"},
          !.bounds = IF InRange(items[i].value)
                     THEN @ \cup {Bound(side, Amounts[items[i].value], i)} ELSE @]

\* A number that is no part of a range and has no operator is a word.
ReadNumber(items, read, i) ==
    IF IsRange(items, i) THEN ReadRange(items, read, i)
    ELSE IF Operator(items, i) \notin read.used THEN ReadBound(items, read, i)
    ELSE [read EXCEPT !.words = @ \cup {i}]

\* 0 counts as used: it is no operator.
Numbers(items) ==
    LET start == [used |-> {0}, bounds |-> {}, words |-> {}, unsupported |-> {}]
        upTo[n \in 0 .. Len(items)] ==
            IF n = 0 THEN start
            ELSE LET read == upTo[n - 1]
                 IN IF Kind(items, n) = "num" /\ n \notin read.used
                    THEN ReadNumber(items, read, n) ELSE read
    IN upTo[Len(items)]

-----------------------------------------------------------------------------
(* parse_query: the rest, and what is reported.                             *)

Excluded(items, i) == Kind(items, i - 1) = "neg_before" \/ Kind(items, i + 1) = "neg_after"

DanglingNegations(items) ==
    {i \in Places(items, {"neg_before"}) : Kind(items, i + 1) # "color"}
    \cup {i \in Places(items, {"neg_after"}) : Kind(items, i - 1) # "color"}

NegationsOnly(items, used) == {"negation" : i \in DanglingNegations(items)}

\* Negations of anything but a colour, and operators no number has used.
Dangling(items, used) ==
    {"negation" : i \in DanglingNegations(items)}
    \cup {"price operator without a number" : i \in Places(items, PriceOperators) \ used}
    \cup {"incomplete price range" : i \in Places(items, {"between_start"}) \ used}

Values(items, places) == {items[i].value : i \in places}

ParseSpoken(items) ==
    LET read == Numbers(items)
        words == read.words \cup Places(items, {"word"})
        excluded == {i \in Places(items, {"color"}) : Excluded(items, i)}
    IN [categories |-> Values(items, Places(items, {"category"})),
        colors |-> Values(items, Places(items, {"color"}) \ excluded),
        excludeColors |-> Values(items, excluded),
        materials |-> Values(items, Places(items, {"material"})),
        bounds |-> read.bounds,
        inStock |-> Places(items, {"in_stock"}) # {},
        words |-> words,
        text |-> Values(items, words),
        unsupported |-> read.unsupported \cup Dangling(items, read.used)]

ParseQuery(items) == ParseSpoken(Spoken(items))

-----------------------------------------------------------------------------
(* evaluate: which products, and which of their variants, match exactly.     *)
(* Colours and materials are what canonical finds in the text of the column. *)

VariantOk(v, q) ==
    /\ v.isActive
    /\ q.colors \cup q.excludeColors # {} =>
        /\ v.colors # {} /\ v.colors \cap q.excludeColors = {}
        /\ q.colors # {} => v.colors \cap q.colors # {}
    /\ q.bounds # {} => v.currency = "PKR"
    /\ \A b \in q.bounds : IF b.side = "min" THEN v.price >= b.price ELSE v.price <= b.price
    /\ q.inStock => v.stock > 0

RawWords(product) == product.words \cup UNION {v.words : v \in product.variants}
ProductWords(product) == {Normal[word] : word \in RawWords(product)}

TextOk(product, q) == q.text \subseteq ProductWords(product)

MatchedVariants(q, product) == {v \in product.variants : VariantOk(v, q)}

Evaluate(q, product) ==
    /\ q.unsupported = {} /\ product.status = "active"
    /\ q.categories # {} => product.category \in q.categories
    /\ q.materials # {} => product.materials \cap q.materials # {}
    /\ TextOk(product, q)
    /\ MatchedVariants(q, product) # {}

-----------------------------------------------------------------------------
(* search_batch: which products the database lets through.                  *)

\* One active variant within the bounds and in stock, if the query asks for any.
VariantMayMatch(product, q) ==
    q.bounds # {} \/ q.inStock =>
        \E v \in product.variants :
            /\ v.isActive
            /\ q.bounds # {} => v.currency = "PKR"
            /\ \A b \in q.bounds : IF b.side = "min" THEN v.price >= b.price ELSE v.price <= b.price
            /\ q.inStock => v.stock > 0

TextOfProductOnly(product, q) ==
    \A token \in q.text \cap AsciiTokens : token \in product.words

\* A token other than ASCII is left to evaluate; an ASCII one is looked for in the
\* text as it is stored.
TextMayMatch(product, q) ==
    \A token \in q.text \cap AsciiTokens : token \in RawWords(product)

MayMatch(q, product) ==
    /\ product.status = "active"
    /\ q.categories # {} => product.category \in q.categories
    /\ VariantMayMatch(product, q) /\ TextMayMatch(product, q)

-----------------------------------------------------------------------------

\* Nothing a shopper says of prices or of what she does not want is dropped or
\* guessed: if a query is not reported, every number in it is one bound or one word
\* that must occur, every price operator has set one bound and every range two, and
\* every negation excludes the colour beside it.
NothingIsGuessed(items) ==
    LET q == ParseQuery(items)   spoken == Spoken(items)
        numbers == Places(spoken, {"num"})   bounded == {b.at : b \in q.bounds}
    IN q.unsupported = {} =>
        /\ numbers \subseteq q.words \cup bounded /\ q.words \cap bounded = {}
        /\ Cardinality(q.bounds) =
              Cardinality(Places(spoken, PriceOperators))
              + 2 * Cardinality(Places(spoken, {"between_start"}))
        /\ \A i \in Places(spoken, {"neg_before"}) : spoken[i + 1].value \in q.excludeColors
        /\ \A i \in Places(spoken, {"neg_after"}) : spoken[i - 1].value \in q.excludeColors

\* The predicates given to the database let every match through: "results are never
\* silently dropped" before evaluate sees them.
LetsMatchesThrough(items, products) ==
    LET q == ParseQuery(items)
    IN \A product \in products : Evaluate(q, product) => MayMatch(q, product)
=============================================================================

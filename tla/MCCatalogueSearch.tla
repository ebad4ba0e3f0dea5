------------------------- MODULE MCCatalogueSearch -------------------------
(* A small shop for TLC.  Its texts are unchanged by normalisation, but for   *)
(* one word in another script; its vocabulary is split over two shoppers: one *)
(* who talks of prices at length, and one who uses all of it in few words.    *)
EXTENDS CatalogueSearch

ShopAmounts == [two |-> 2, four |-> 4, ninek |-> 9000]
ShopNormal == [fine |-> "fine", kani |-> "kani", rangMarked |-> "rang"]
ShopAscii == {"fine", "kani", "two", "four"}

Item(kind, value) == [kind |-> kind, value |-> value]
Said(kind) == Item(kind, kind)

Prices == {Item("num", "two"), Item("num", "four"),
           Said("max_before"), Said("min_after"), Said("between_start"), Said("between_joiner")}
Everything == {Item("num", "two"), Item("num", "ninek"), Said("min_before"), Said("max_after"),
               Said("neg_before"), Said("neg_after"), Item("color", "red"), Item("color", "blue"),
               Item("category", "stoles"), Item("material", "wool"), Item("word", "fine"),
               Item("word", "rang"), Said("in_stock"), Said("stop"), Said("between_start")}
ShopShoppers == {[items |-> Prices, longest |-> 5], [items |-> Everything, longest |-> 3]}

ShopSearches == {<<>>, <<Item("color", "red")>>, <<Item("word", "fine")>>, <<Said("neg_before")>>}

Variant(colors, price, stock, words) ==
    [isActive |-> TRUE, colors |-> colors, currency |-> "PKR", price |-> price, stock |-> stock, words |-> words]
Product(status, category, materials, words, variants) ==
    [status |-> status, category |-> category, materials |-> materials, words |-> words, variants |-> variants]

RedShawl == Product("active", "shawls", {"wool"}, {"fine"}, {Variant({"red"}, 2, 1, {}), Variant({"blue"}, 4, 0, {"kani"})})
BlueStole == Product("active", "stoles", {}, {"rangMarked"},
    {Variant({"blue"}, 3, 1, {"fine"}), [Variant({"red"}, 3, 1, {}) EXCEPT !.isActive = FALSE]})
DraftShawl == [RedShawl EXCEPT !.status = "draft"]
PlainShawl == Product("active", "shawls", {}, {"kani"}, {[Variant({}, 2, 1, {}) EXCEPT !.currency = "USD"]})
ShopProducts == {RedShawl, BlueStole, DraftShawl, PlainShawl}

ShopCatalogues ==
    {<<BlueStole, second, third, newest>> : second \in {BlueStole, DraftShawl},
        third \in {RedShawl, Absent}, newest \in {RedShawl, BlueStole, Absent}}

\* The nearest rows may be of one product or left behind, and equally near; a product that
\* only the index finds may score as high as one that only the words find.
Row(of, id, live, distance) == [of |-> of, id |-> id, live |-> live, distance |-> distance]
ShopVectors ==
    <<{{Row({}, 1, TRUE, 1), Row({Variant({"blue"}, 3, 1, {"fine"})}, 1, TRUE, 3)}},
      {{Row({}, 2, TRUE, 2), Row({Variant({"blue"}, 3, 1, {"fine"})}, 2, TRUE, 1)}, {Row({}, 2, FALSE, 1)}},
      {{Row({}, 5, TRUE, 2), Row({Variant({"red"}, 2, 1, {})}, 3, TRUE, 2), Row({Variant({"blue"}, 4, 0, {"kani"})}, 4, TRUE, 2)}},
      {{}, {Row({}, 4, TRUE, 1)}}>>
ShopIndexes == {<<first, second, third, newest>> : first \in ShopVectors[1], second \in ShopVectors[2],
                                                   third \in ShopVectors[3], newest \in ShopVectors[4]}
=============================================================================

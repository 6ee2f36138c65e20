---------------------------- MODULE CatalogDomain ----------------------------
(***************************************************************************)
(* The pure rules of the catalog (product.ts, sku.ts, price.ts) and the    *)
(* price list that ordering asks for (prisma-product.query.ts,             *)
(* in-process-catalog.adapter.ts).  A SKU is a product and one of the      *)
(* codes of that product; its name is of no consequence here.              *)
(***************************************************************************)
EXTENDS Integers, Sequences, FiniteSets, Functions

SkuOf(product, code) == [product |-> product, code |-> code]

\* Price.of
PriceAccepted(money) == money.amount > 0

Product(status, prices) == [status |-> status, prices |-> prices]

\* The SKUs of a registration, in the order they were sent.
NewSku(code, price) == [code |-> code, price |-> price]
Codes(skus) == {skus[i].code : i \in DOMAIN skus}

\* findDuplicateCode
DuplicateCode(skus) == Cardinality(Codes(skus)) < Len(skus)

\* RegisterProductService: prices first, then Product.register.
RegisterVerdict(skus) ==
    IF \E i \in DOMAIN skus : ~PriceAccepted(skus[i].price) THEN "INVALID_PRICE"
    ELSE IF skus = <<>> THEN "INVALID_PRODUCT"
    ELSE IF DuplicateCode(skus) THEN "DUPLICATE_SKU_CODE" ELSE "OK"

RegisteredProduct(skus) ==
    Product("ACTIVE", [c \in Codes(skus) |-> (CHOOSE i \in Range(skus) : i.code = c).price])

\* changePrice: findSku, then the SKU is replaced by one with the new price.
PriceVerdict(product, code) == IF code \in DOMAIN product.prices THEN "OK" ELSE "SKU_NOT_FOUND"

Repriced(product, code, price) ==
    Product(product.status, [c \in DOMAIN product.prices |->
                                IF c = code THEN price ELSE product.prices[c]])

\* findSkus: the SKUs of products that are ACTIVE.
OnSale(products) ==
    UNION {{SkuOf(p, c) : c \in DOMAIN products[p].prices} :
              p \in {p \in DOMAIN products : products[p].status = "ACTIVE"}}

PriceList(products) == [s \in OnSale(products) |-> products[s.product].prices[s.code]]

=============================================================================

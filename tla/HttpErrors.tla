----------------------------- MODULE HttpErrors -----------------------------
(***************************************************************************)
(* How a domain error becomes an HTTP answer: every module of the API      *)
(* registers its errors with DomainErrorRegistry at start-up, the          *)
(* exception filter resolves what was thrown, and the BFF sends the code   *)
(* on to the browser under a status of its own.                            *)
(*                                                                         *)
(* A registration maps the code of a domain error to [status, code], where *)
(* code is the ErrorCode of the contract that clients branch on.           *)
(***************************************************************************)
EXTENDS Integers

-----------------------------------------------------------------------------
(* The codes of the classes that extend DomainError.  Errors that do not,   *)
(* such as those of corrupted rows, have no code.                           *)

KernelErrors == {"QUANTITY_NOT_INTEGER", "QUANTITY_BELOW_MINIMUM", "NEGATIVE_QUANTITY"}
AccountErrors == {"EMAIL_ALREADY_REGISTERED", "INVALID_CREDENTIALS", "SAME_PASSWORD"}
SessionErrors == {"SESSION_EXPIRED", "SESSION_REVOKED", "SESSION_NOT_FOUND"}
CustomerErrors == {"INVALID_ADDRESS", "ADDRESS_NOT_FOUND"}
CatalogErrors == {"INVALID_PRICE", "INVALID_PRODUCT", "DUPLICATE_SKU_CODE", "SKU_NOT_FOUND",
                  "PRODUCT_NOT_FOUND"}
CartErrors == {"CART_LINE_NOT_FOUND", "CART_LINE_LIMIT_EXCEEDED", "CART_NOT_FOUND"}
OrderErrors == {"EMPTY_ORDER", "MIXED_CURRENCY_ORDER", "ORDER_CONFLICT", "ORDER_NOT_OWNED",
                "ORDER_NOT_FOUND", "INVALID_SHIPPING_ADDRESS", "EMPTY_CART", "UNKNOWN_SKU",
                "OUT_OF_STOCK", "SHIPPING_ADDRESS_NOT_FOUND"}
StockErrors == {"INSUFFICIENT_STOCK", "RESERVATION_CONFLICT", "STOCK_NOT_FOUND",
                "RESERVATION_NOT_FOUND", "STOCK_CONTENTION", "STOCK_ALREADY_EXISTS"}
PaymentErrors == {"PAYMENT_CONFLICT", "PAYMENT_NOT_FOUND"}

\* Those of value objects and of the HTTP layer itself.
InvalidId == {"INVALID_ID"}
InvalidEmail == {"INVALID_EMAIL"}
PasswordPolicy == {"PASSWORD_POLICY_VIOLATED"}
ValidationFailed == {"VALIDATION_FAILED"}
Unauthenticated == {"UNAUTHENTICATED"}

-----------------------------------------------------------------------------
(* The registrations.                                                       *)

To(errors, status, code) == [e \in errors |-> [status |-> status, code |-> code]]

\* Registrations of one module next to those of another one.
And(f, g) == [e \in DOMAIN f \cup DOMAIN g |-> IF e \in DOMAIN f THEN f[e] ELSE g[e]]

RegisterKernelDomainErrors ==
    And(To({"INVALID_ID", "QUANTITY_NOT_INTEGER", "VALIDATION_FAILED"}, 400, "VALIDATION_FAILED"),
    And(To({"QUANTITY_BELOW_MINIMUM"}, 422, "QUANTITY_BELOW_MINIMUM"),
    And(To({"NEGATIVE_QUANTITY"}, 409, "DOMAIN_RULE_VIOLATED"),
        To({"UNAUTHENTICATED"}, 401, "UNAUTHENTICATED"))))

RegisterIdentityDomainErrors ==
    And(To({"EMAIL_ALREADY_REGISTERED"}, 409, "EMAIL_ALREADY_REGISTERED"),
    And(To({"INVALID_CREDENTIALS"}, 401, "INVALID_CREDENTIALS"),
    And(To({"INVALID_EMAIL"}, 400, "VALIDATION_FAILED"),
    And(To({"PASSWORD_POLICY_VIOLATED", "SAME_PASSWORD"}, 422, "PASSWORD_POLICY_VIOLATED"),
        To({"SESSION_EXPIRED", "SESSION_REVOKED", "SESSION_NOT_FOUND"}, 401, "UNAUTHENTICATED")))))

RegisterCustomerDomainErrors ==
    And(To({"ADDRESS_NOT_FOUND"}, 404, "NOT_FOUND"),
        To({"INVALID_ADDRESS"}, 400, "VALIDATION_FAILED"))

RegisterCatalogDomainErrors ==
    And(To({"INVALID_PRICE", "INVALID_PRODUCT"}, 400, "VALIDATION_FAILED"),
    And(To({"DUPLICATE_SKU_CODE"}, 409, "DOMAIN_RULE_VIOLATED"),
        To({"SKU_NOT_FOUND", "PRODUCT_NOT_FOUND"}, 404, "NOT_FOUND")))

RegisterOrderingDomainErrors ==
    And(To({"CART_LINE_NOT_FOUND", "CART_NOT_FOUND", "ORDER_NOT_FOUND",
            "SHIPPING_ADDRESS_NOT_FOUND"}, 404, "NOT_FOUND"),
    And(To({"CART_LINE_LIMIT_EXCEEDED", "EMPTY_CART", "EMPTY_ORDER",
            "MIXED_CURRENCY_ORDER", "UNKNOWN_SKU"}, 422, "DOMAIN_RULE_VIOLATED"),
    And(To({"OUT_OF_STOCK"}, 409, "INSUFFICIENT_STOCK"),
    And(To({"ORDER_CONFLICT"}, 409, "ORDER_NOT_CANCELLABLE"),
    And(To({"ORDER_NOT_OWNED"}, 403, "FORBIDDEN"),
        To({"INVALID_SHIPPING_ADDRESS"}, 400, "VALIDATION_FAILED"))))))

RegisterInventoryDomainErrors ==
    And(To({"INSUFFICIENT_STOCK"}, 409, "INSUFFICIENT_STOCK"),
    And(To({"STOCK_NOT_FOUND", "RESERVATION_NOT_FOUND"}, 404, "NOT_FOUND"),
        To({"STOCK_CONTENTION", "STOCK_ALREADY_EXISTS", "RESERVATION_CONFLICT"}, 409,
           "DOMAIN_RULE_VIOLATED")))

RegisterPaymentDomainErrors ==
    And(To({"PAYMENT_CONFLICT"}, 409, "DOMAIN_RULE_VIOLATED"),
        To({"PAYMENT_NOT_FOUND"}, 404, "NOT_FOUND"))

Mappings ==
    And(RegisterKernelDomainErrors, And(RegisterIdentityDomainErrors,
    And(RegisterCustomerDomainErrors, And(RegisterCatalogDomainErrors,
    And(RegisterOrderingDomainErrors, And(RegisterInventoryDomainErrors,
        RegisterPaymentDomainErrors))))))

\* resolve(): an error that nobody registered is a rule that was violated.
Resolve(error) ==
    IF error \in DOMAIN Mappings THEN Mappings[error]
    ELSE [status |-> 422, code |-> "DOMAIN_RULE_VIOLATED"]

\* What is no DomainError passes the filter by and ends as a 500.
Internal == [status |-> 500, code |-> "INTERNAL_ERROR"]

\* toResponse: the status of each ErrorCode in an answer of the BFF.
BffStatus(code) ==
    IF code = "VALIDATION_FAILED" THEN 400
    ELSE IF code \in {"UNAUTHENTICATED", "INVALID_CREDENTIALS"} THEN 401
    ELSE IF code = "FORBIDDEN" THEN 403
    ELSE IF code = "NOT_FOUND" THEN 404
    ELSE IF code \in {"INSUFFICIENT_STOCK", "ORDER_NOT_CANCELLABLE",
                      "EMAIL_ALREADY_REGISTERED"} THEN 409
    ELSE IF code \in {"DOMAIN_RULE_VIOLATED", "QUANTITY_BELOW_MINIMUM",
                      "PASSWORD_POLICY_VIOLATED", "PAYMENT_DECLINED"} THEN 422
    ELSE 500

=============================================================================

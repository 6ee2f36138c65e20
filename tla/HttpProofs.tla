----------------------------- MODULE HttpProofs -----------------------------
(***************************************************************************)
(* What DomainErrorRegistry knows once every module has registered its     *)
(* errors.  This is about the whole program: each module registers for     *)
(* itself and sees nobody else's codes.                                    *)
(***************************************************************************)
EXTENDS HttpErrors, TLAPS

\* The codes that the modules of the API register.
LEMMA KernelCodes ==
    DOMAIN RegisterKernelDomainErrors =
        KernelErrors \cup InvalidId \cup ValidationFailed \cup Unauthenticated
BY DEF RegisterKernelDomainErrors, And, To, KernelErrors, InvalidId,
       ValidationFailed, Unauthenticated

LEMMA IdentityCodes ==
    DOMAIN RegisterIdentityDomainErrors =
        AccountErrors \cup SessionErrors \cup InvalidEmail \cup PasswordPolicy
BY DEF RegisterIdentityDomainErrors, And, To, AccountErrors, SessionErrors, InvalidEmail,
       PasswordPolicy

LEMMA CustomerCodes ==
    DOMAIN RegisterCustomerDomainErrors = CustomerErrors
BY DEF RegisterCustomerDomainErrors, And, To, CustomerErrors

LEMMA CatalogCodes ==
    DOMAIN RegisterCatalogDomainErrors = CatalogErrors
BY DEF RegisterCatalogDomainErrors, And, To, CatalogErrors

LEMMA OrderingCodes ==
    DOMAIN RegisterOrderingDomainErrors =
        CartErrors \cup OrderErrors
BY DEF RegisterOrderingDomainErrors, And, To, CartErrors, OrderErrors

LEMMA InventoryCodes ==
    DOMAIN RegisterInventoryDomainErrors = StockErrors
BY DEF RegisterInventoryDomainErrors, And, To, StockErrors

LEMMA PaymentCodes ==
    DOMAIN RegisterPaymentDomainErrors = PaymentErrors
BY DEF RegisterPaymentDomainErrors, And, To, PaymentErrors

\* The statuses and the ErrorCodes that the registrations choose from: none of
\* them is a success, or what a defect of the server is answered with.
Refusals == {400, 401, 403, 404, 409, 422}
RefusalCodes == {"VALIDATION_FAILED", "QUANTITY_BELOW_MINIMUM", "DOMAIN_RULE_VIOLATED",
                 "UNAUTHENTICATED", "EMAIL_ALREADY_REGISTERED", "INVALID_CREDENTIALS",
                 "PASSWORD_POLICY_VIOLATED", "NOT_FOUND", "INSUFFICIENT_STOCK",
                 "ORDER_NOT_CANCELLABLE", "FORBIDDEN"}
Refuses(f) == \A e \in DOMAIN f : f[e].status \in Refusals /\ f[e].code \in RefusalCodes

\* Registering errors next to others keeps the answers of both.
LEMMA AndRefuses ==
    ASSUME NEW f, NEW g, Refuses(f), Refuses(g)
    PROVE  Refuses(And(f, g))
BY DEF Refuses, And

\* Nor does the registration of one error.
LEMMA ToRefuses ==
    ASSUME NEW errors, NEW status \in Refusals, NEW code \in RefusalCodes
    PROVE  Refuses(To(errors, status, code))
BY DEF Refuses, To

\* resolve() answers the code of a DomainError, registered or not, with a status
\* and an ErrorCode of the registrations.  Errors that are no DomainError never
\* come here: they are answered with Internal.
LEMMA RefusalAnswers ==
    \A e : Resolve(e).status \in Refusals /\ Resolve(e).code \in RefusalCodes
<1>1. \A status \in Refusals, code \in RefusalCodes : \A errors : Refuses(To(errors, status, code))
    BY ToRefuses
<1>2. \A f, g : Refuses(f) /\ Refuses(g) => Refuses(And(f, g))
    BY AndRefuses
<1>3. {400, 401, 403, 404, 409, 422} \subseteq Refusals
    BY DEF Refusals
<1>c. {"VALIDATION_FAILED", "QUANTITY_BELOW_MINIMUM", "DOMAIN_RULE_VIOLATED",
       "UNAUTHENTICATED", "EMAIL_ALREADY_REGISTERED", "INVALID_CREDENTIALS",
       "PASSWORD_POLICY_VIOLATED", "NOT_FOUND", "INSUFFICIENT_STOCK",
       "ORDER_NOT_CANCELLABLE", "FORBIDDEN"} \subseteq RefusalCodes
    BY DEF RefusalCodes
<1>4. Refuses(RegisterKernelDomainErrors)
    BY <1>1, <1>2, <1>3, <1>c DEF RegisterKernelDomainErrors
<1>5. Refuses(RegisterIdentityDomainErrors)
    BY <1>1, <1>2, <1>3, <1>c DEF RegisterIdentityDomainErrors
<1>6. Refuses(RegisterCustomerDomainErrors)
    BY <1>1, <1>2, <1>3, <1>c DEF RegisterCustomerDomainErrors
<1>7. Refuses(RegisterCatalogDomainErrors)
    BY <1>1, <1>2, <1>3, <1>c DEF RegisterCatalogDomainErrors
<1>8. Refuses(RegisterOrderingDomainErrors)
    BY <1>1, <1>2, <1>3, <1>c DEF RegisterOrderingDomainErrors
<1>9. Refuses(RegisterInventoryDomainErrors) /\ Refuses(RegisterPaymentDomainErrors)
    BY <1>1, <1>2, <1>3, <1>c DEF RegisterInventoryDomainErrors, RegisterPaymentDomainErrors
<1>10. Refuses(Mappings)
    BY <1>2, <1>4, <1>5, <1>6, <1>7, <1>8, <1>9 DEF Mappings
<1> QED
    BY <1>3, <1>c, <1>10 DEF Resolve, Refuses

\* domain-error.registry.ts 9-12, the registrations, and bff-response.ts 13-26
\* and 36: two tables of two programs, the second one with a 500 for codes that
\* it does not list.  A DomainError of any module reaches the browser as a
\* refusal, never with the status that a defect of the server ends as.
THEOREM RefusalsReachTheBrowser ==
    \A e : /\ BffStatus(Resolve(e).code) \in Refusals
           /\ BffStatus(Resolve(e).code) # BffStatus(Internal.code)
<1>1. \A code \in RefusalCodes : BffStatus(code) \in Refusals
    BY DEF RefusalCodes, BffStatus, Refusals
<1>2. BffStatus(Internal.code) \notin Refusals
    BY DEF Internal, BffStatus, Refusals
<1> QED
    BY <1>1, <1>2, RefusalAnswers

DomainErrors ==
    KernelErrors \cup InvalidId \cup ValidationFailed \cup Unauthenticated
    \cup AccountErrors \cup SessionErrors \cup InvalidEmail \cup PasswordPolicy
    \cup CustomerErrors \cup CatalogErrors \cup CartErrors \cup OrderErrors
    \cup StockErrors \cup PaymentErrors

\* domain-error.registry.ts 9-12: the fallback of resolve() is for an error
\* that nobody registered, and the program has none: every error of every
\* module is answered with the status that module chose for it.
THEOREM EveryErrorIsRegistered == DomainErrors = DOMAIN Mappings
<1>1. DOMAIN Mappings =
        DOMAIN RegisterKernelDomainErrors \cup (DOMAIN RegisterIdentityDomainErrors
        \cup (DOMAIN RegisterCustomerDomainErrors \cup (DOMAIN RegisterCatalogDomainErrors
        \cup (DOMAIN RegisterOrderingDomainErrors \cup (DOMAIN RegisterInventoryDomainErrors
        \cup DOMAIN RegisterPaymentDomainErrors)))))
    BY DEF Mappings, And
<1> QED
    BY <1>1, KernelCodes, IdentityCodes, CustomerCodes, CatalogCodes, OrderingCodes, InventoryCodes,
       PaymentCodes DEF DomainErrors

=============================================================================

SPECIFICATION Spec
CONSTANTS
    Annotations <- MCAnnotations
    IngressRules <- MCRules
CHECK_DEADLOCK FALSE
INVARIANTS OrderIrrelevant ProvidersAgree

CONSTANTS
    Rules = {r1, r2}
    Kinds = {"asset", "ajax"}
SPECIFICATION Spec
INVARIANT RulesAlwaysSeeTheResponse
CHECK_DEADLOCK FALSE

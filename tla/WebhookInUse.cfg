\* Two requests: one creates a rule, the other deletes its webhook.
SPECIFICATION Spec
CONSTANTS
    NULL = NULL
    Rule = {r1}
    Request = {q1, q2}
    Emitter = {v1}
    Limit = 1
    MaxHook = 1
    MaxRow = 1
    MaxFault = 0
CHECK_DEADLOCK FALSE
PROPERTY
    UsedWebhookStays

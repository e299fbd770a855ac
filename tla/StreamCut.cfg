SPECIFICATION Spec
CONSTANTS Paths = {"/v1/responses", "/v1/messages", "/v1/chat/completions"}
 MaxRead = 3
 MaxFrames = 4
INVARIANT InterruptionReported

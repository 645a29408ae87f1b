------------------------- MODULE MCResponseRecorder -------------------------
(* Model-checking instance of ResponseRecorder: body chunks and the error *)
(* bodies as model values; three of the validator's patterns and every    *)
(* request path of up to six symbols.                                      *)
EXTENDS ResponseRecorder

CONSTANTS c1, c2, errBody, forbBody

MCChunks == {c1, c2}

\* Tokens: "eth/v1/node" stands for that text, "states" for
\* "eth/v1/beacon/states"; a path holds them whole or not at all.  "x" is
\* any other text without "/" or whitespace.
MCValidPaths ==
    << <<"/", "eth/v1/node", "/", "peers">>,
       <<"/", "eth/v1/node", "/", "peers", "/", AnySeg>>,
       <<"/", "states", "/", AnySeg, "/", "root">> >>

\* net/http only accepts request paths that start with "/".
MCPaths ==
    {<<"/">> \o s :
        s \in BoundedSeq({"/", " ", "eth/v1/node", "peers", "states", "root", "x"}, 6)}

\* One admitted path, for runs about what happens after validation.
MCEndpointPath == {<<"/", "eth/v1/node", "/", "peers">>}

=============================================================================

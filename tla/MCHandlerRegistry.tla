--------------------------- MODULE MCHandlerRegistry ---------------------------
EXTENDS HandlerRegistry, TLC

\* Ids, transports, configurations and dispatcher threads are interchangeable.
Symmetry == Permutations(Ids) \cup Permutations(Transports)
            \cup Permutations(Configs) \cup Permutations(Callbacks)

=============================================================================

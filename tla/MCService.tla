------------------------------ MODULE MCService ------------------------------
EXTENDS Service

\* The second policy lifts a denial, and takes a name and an address range away.
MCPolicies == << [allow |-> {"api", "lit"}, deny |-> {"lit"}, cidr |-> {}],
                 [allow |-> {"lit"}, deny |-> {}, cidr |-> {"inner"}] >>
=============================================================================

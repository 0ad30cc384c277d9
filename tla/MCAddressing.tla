----------------------------- MODULE MCAddressing -----------------------------
(* Addresses and filters for the run of Addressing.                        *)
EXTENDS Addressing

Uri(authority, instance, service, version, resource) ==
    [authority |-> authority, instance |-> instance, service |-> service,
     version |-> version, resource |-> resource]

Methods == {7, 8}
Topics == {32769, 65535 - 1}

Entities(authority, resources) ==
    {Uri(authority, i, s, v, r) : i \in {0, 2}, s \in {1, 2}, v \in {1, 2}, r \in resources}

Client == Uri("client", 0, 9, 1, 0)

SomeMessages ==
    {[type |-> "PUBLISH", source |-> u, sink |-> NoSink] : u \in Entities("client", Topics \cup Methods)}
      \cup {[type |-> "REQUEST", source |-> Client, sink |-> u] :
              u \in Entities("service", {0} \cup Methods)}
      \cup {[type |-> "RESPONSE", source |-> u, sink |-> Client] : u \in Entities("client", Methods)}

\* Filters with and without wildcards.
FiltersOn(resources) ==
    {Uri(a, i, s, v, r) : a \in {AnyAuthority, "there"}, i \in {0, Any16}, s \in {1, Any16},
                          v \in {1, Any8}, r \in resources \cup {Any16}}
AnyUri == Uri(AnyAuthority, Any16, Any16, Any8, Any16)

SomeListeners ==
    {[source |-> f, sink |-> NoSink] : f \in FiltersOn({32769})}
      \cup {[source |-> AnyUri, sink |-> [f EXCEPT !.authority = "here"]] : f \in FiltersOn({7})}
      \cup {[source |-> f, sink |-> Client] : f \in FiltersOn({7})}

=============================================================================

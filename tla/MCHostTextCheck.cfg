\* parse_ipv6_address against the RFC 4291 text form and its round trip
\* through ipv6_address::to_string; parse_ipv4_address against the IPv4
\* parser of spec 4.2.
CONSTANT Texts <- HostTexts
SPECIFICATION Spec
INVARIANTS Ipv6MatchesReference Ipv6TextRoundTrip Ipv4MatchesReference

SPECIFICATION Spec
CONSTANTS
    Listings = {p1}
    Contents = {v1, v2}
    NoContent = NoContent
    Slugs = {v1, v2}
    SlugOf <- OwnTitle
    Sessions = {a1, a2}
    NoListing = NoListing
    NoSession = NoSession
INVARIANT OnlyPublishedIsPublic

\* Two events, so that there can be a second candidate, a second version of one
\* event, or a match that pads the list; and two odd things at once: a world out of
\* the ordinary and a change, or a change and the one that would cover it up.
CONSTANTS
    MaxEvents = 2
    MaxOdd = 2
SPECIFICATION Spec
INVARIANTS
    MatchedIsSupported
    DisplayedActionIsSigned
    FavourIsAnchored
CHECK_DEADLOCK FALSE

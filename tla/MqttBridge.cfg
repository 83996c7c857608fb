SPECIFICATION FairSpec
CONSTANT AleasMax = 3
INVARIANT TypeOK
INVARIANT PublishedIsShown
INVARIANT CommandedIsReread
PROPERTY OnIsForADarkLamp
PROPERTY ShownInTheEnd

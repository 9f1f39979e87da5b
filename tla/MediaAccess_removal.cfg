\* One member with a media session and a microphone, who may join the voice
\* room again as long as the token lasts.
CONSTANTS
    Members = {m1}
    Speakers = {m1}
    Ids = {x1}
    Leases = {l1}
    MaxKick = 1
    MaxItems = 2
    All = all
    None = None
SPECIFICATION FairSpec
INVARIANT TypeOK
PROPERTIES KicksAreCarriedOut VoiceIsCleared

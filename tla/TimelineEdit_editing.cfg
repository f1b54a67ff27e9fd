SPECIFICATION Spec
CONSTANTS
    film = film
    mute = mute
    song = song
    NoAsset = NoAsset
    Asset <- Materials
    KindOf <- Kinds
    HasAudio <- Sounds
    Length <- Lengths
    Shots <- OneShot
    Frame = {2, 6}
    Source <- Ranges
    Rate <- Speeds
    Opening <- Openings
    MaxVersion = 5
INVARIANTS DocumentSound
PROPERTIES SoundsStay PlayedExactly FramesObserved
VIEW Future

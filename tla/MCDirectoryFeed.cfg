SPECIFICATION FairSpec
CONSTANTS
    a = a
    b = b
    Self = Self
    Node = {a, b, Self}
    Handler = {h1, h2}
    Request = {q1, q2}
    SampleSize = 1
    MaxGen = 1
INVARIANTS HonestAnswer NothingAfterStop
PROPERTIES UnsubscribedUnheard EverySentIsAnswered

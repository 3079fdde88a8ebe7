SPECIFICATION PhotosSpec
CONSTANTS
  Key = {k1, k2, k3}
  Position = {0, 1, 2}
  Slot = {s1, s2}
  MaxImages = 3
  MaxPhotos = 2
SYMMETRY Interchangeable
INVARIANTS CountsOnlyRegisteredPhotos GalleryHasNoGaps
PROPERTY ExpiryTakesNoListingImage
